---- MODULE Spec2Model ----
(***************************************************************************)
(* Blog API (Express routers + controllers over a document store).         *)
(*                                                                         *)
(* A request is received by a router, matched against the route table in   *)
(* declaration order, run through the route's middleware chain and then    *)
(* through its controller.  A controller runs one data-store round trip    *)
(* per step (every `await` of the source is a step boundary), so the steps *)
(* of concurrent requests interleave.                                      *)
(*                                                                         *)
(* Text values (titles, contents, tags, search queries) are sequences of   *)
(* one-character strings.  A JavaScript `undefined` field is a field that  *)
(* is absent from the record.                                              *)
(***************************************************************************)
EXTENDS Integers, Sequences, FiniteSets, TLC

\* ------------------------------------------------------------------ bounds
\* requests received over one behaviour
MaxReq == 2
\* requests in flight at the same time
MaxInFlight == 2
\* posts ever stored (initial ones included)
MaxPosts == 3
\* categories ever stored (initial ones included)
MaxCats == 2
\* auth functions entered (the initial check included), and logouts
MaxCalls == 4
MaxLogouts == 2
\* post fetches started by the Home page
MaxFetches == 5

\* ------------------------------------------------------- program constants
DefaultPage == 1
DefaultLimit == 10
TitleMax == 100
ContentMin == 10
ExcerptMax == 200
TagMax == 20
CategoryNameMax == 50
DescriptionMax == 200
CommentMax == 1000

\* --------------------------------------------------------------- universe
\* ObjectIds stand for 24-digit hexadecimal strings.
PostIdPool == <<"p1", "p2", "p3", "p4", "p5">>
CatIdPool == <<"c1", "c2", "c3", "c4">>
UserIds == {"u1", "mod", "adm"}
\* a well-formed ObjectId that names no document of any collection
GhostId == "f00"
ObjectIds == {PostIdPool[i] : i \in DOMAIN PostIdPool}
               \cup {CatIdPool[i] : i \in DOMAIN CatIdPool}
               \cup UserIds \cup {GhostId}

\* /^[0-9a-fA-F]{24}$/.test(id), also express-validator's isMongoId()
isObjectId(s) == s \in ObjectIds

\* User collection: role per user id.  No operation of the API removes a user.
Users == [u \in UserIds |->
            [role |-> CASE u = "u1" -> "user"
                        [] u = "mod" -> "moderator"
                        [] u = "adm" -> "admin"]]

\* a request carries the bearer token of one user, or none
NoToken == "none"
Tokens == UserIds \cup {NoToken}

\* ------------------------------------------------------------------- text
Str(n, c) == [i \in 1..n |-> c]

TGo == <<"G", "o">>
TNews == <<"N", "e", "w", "s">>
TBlank == <<" ">>
CBody == <<"s", "o", "m", "e", " ", "w", "o", "r", "d", "s">>
CShort == <<"h", "i">>
EIntro == <<"i", "n", "t", "r", "o">>
TagNode == <<"n", "o", "d", "e">>
TagWeb == <<"w", "e", "b">>

Lower(c) == CASE c = "G" -> "g"
              [] c = "N" -> "n"
              [] c = "O" -> "o"
              [] c = "D" -> "d"
              [] c = "E" -> "e"
              [] OTHER -> c

\* String.prototype.trim / express-validator trim(): blanks off both ends
RECURSIVE TrimLeft(_)
TrimLeft(s) == IF s # <<>> /\ Head(s) = " " THEN TrimLeft(Tail(s)) ELSE s
RECURSIVE TrimRight(_)
TrimRight(s) == IF s # <<>> /\ s[Len(s)] = " "
                THEN TrimRight(SubSeq(s, 1, Len(s) - 1)) ELSE s
Trim(s) == TrimRight(TrimLeft(s))

\* new RegExp(q) throws on an unbalanced group
RegexValid(q) == \A i \in DOMAIN q : q[i] \notin {"(", ")"}

\* { $regex: q, $options: 'i' } and new RegExp(q, 'i'): an unanchored,
\* case-insensitive match in which "." stands for any one character
RegexMatch(q, s) ==
  \E off \in 0..(Len(s) - Len(q)) :
    \A i \in 1..Len(q) : q[i] = "." \/ Lower(q[i]) = Lower(s[off + i])

\* parseInt(v) || d  for a query-string value v (absent: undefined)
ParseIntOr(q, f, d) ==
  IF f \notin DOMAIN q THEN d
  ELSE CASE q[f] = "1" -> 1
         [] q[f] = "2" -> 2
         [] q[f] = "3" -> 3
         [] q[f] = "-1" -> -1
         [] OTHER -> d

\* Math.ceil(total / limit)
CeilDiv(total, limit) ==
  IF limit > 0 THEN (total + limit - 1) \div limit
  ELSE 0 - (total \div (0 - limit))

\* ---------------------------------------------------------------- routers
\* One route: the method, the path pattern (":id" is a parameter) and the
\* chain of middleware that ends with the controller.
PostRoutes_OpenComments == <<
  [method |-> "GET", pattern |-> <<>>, chain |-> <<"getAllPosts">>],
  [method |-> "GET", pattern |-> <<"search">>, chain |-> <<"searchPosts">>],
  [method |-> "GET", pattern |-> <<":id">>, chain |-> <<"getPost">>],
  [method |-> "GET", pattern |-> <<"my-posts">>,
   chain |-> <<"protect", "getMyPosts">>],
  [method |-> "POST", pattern |-> <<>>,
   chain |-> <<"protect", "uploadSingle", "validatePost", "createPost">>],
  [method |-> "PUT", pattern |-> <<":id">>,
   chain |-> <<"protect", "uploadSingle", "validatePost", "updatePost">>],
  [method |-> "DELETE", pattern |-> <<":id">>,
   chain |-> <<"protect", "deletePost">>],
  [method |-> "POST", pattern |-> <<":id", "comments">>,
   chain |-> <<"validateComment", "addComment">>] >>

PostRoutes_ValidateFirst == <<
  [method |-> "GET", pattern |-> <<>>, chain |-> <<"getAllPosts">>],
  [method |-> "GET", pattern |-> <<"search">>, chain |-> <<"searchPosts">>],
  [method |-> "GET", pattern |-> <<":id">>, chain |-> <<"getPost">>],
  [method |-> "GET", pattern |-> <<"my-posts">>,
   chain |-> <<"protect", "getMyPosts">>],
  [method |-> "POST", pattern |-> <<>>,
   chain |-> <<"protect", "uploadSingle", "validatePost", "createPost">>],
  [method |-> "PUT", pattern |-> <<":id">>,
   chain |-> <<"uploadSingle", "validatePost", "protect", "updatePost">>],
  [method |-> "DELETE", pattern |-> <<":id">>,
   chain |-> <<"protect", "deletePost">>],
  [method |-> "POST", pattern |-> <<":id", "comments">>,
   chain |-> <<"protect", "validateComment", "addComment">>] >>
PostRoutes == <<
  [method |-> "GET", pattern |-> <<>>, chain |-> <<"getAllPosts">>],
  [method |-> "GET", pattern |-> <<"search">>, chain |-> <<"searchPosts">>],
  [method |-> "GET", pattern |-> <<":id">>, chain |-> <<"getPost">>],
  [method |-> "GET", pattern |-> <<"my-posts">>,
   chain |-> <<"protect", "getMyPosts">>],
  [method |-> "POST", pattern |-> <<>>,
   chain |-> <<"protect", "uploadSingle", "validatePost", "createPost">>],
  [method |-> "PUT", pattern |-> <<":id">>,
   chain |-> <<"protect", "uploadSingle", "validatePost", "updatePost">>],
  [method |-> "DELETE", pattern |-> <<":id">>,
   chain |-> <<"protect", "deletePost">>],
  [method |-> "POST", pattern |-> <<":id", "comments">>,
   chain |-> <<"protect", "validateComment", "addComment">>] >>

CategoryRoutes_NoAdminGate == <<
  [method |-> "GET", pattern |-> <<>>, chain |-> <<"getAllCategories">>],
  [method |-> "GET", pattern |-> <<":id">>, chain |-> <<"getCategory">>],
  [method |-> "GET", pattern |-> <<":id", "posts">>,
   chain |-> <<"getPostsByCategory">>],
  [method |-> "POST", pattern |-> <<>>,
   chain |-> <<"protect", "authorizeAdmin", "validateCategory",
               "createCategory">>],
  [method |-> "PUT", pattern |-> <<":id">>,
   chain |-> <<"protect", "authorizeAdmin", "validateCategory",
               "updateCategory">>],
  [method |-> "DELETE", pattern |-> <<":id">>,
   chain |-> <<"protect", "deleteCategory">>] >>

CategoryRoutes == <<
  [method |-> "GET", pattern |-> <<>>, chain |-> <<"getAllCategories">>],
  [method |-> "GET", pattern |-> <<":id">>, chain |-> <<"getCategory">>],
  [method |-> "GET", pattern |-> <<":id", "posts">>,
   chain |-> <<"getPostsByCategory">>],
  [method |-> "POST", pattern |-> <<>>,
   chain |-> <<"protect", "authorizeAdmin", "validateCategory",
               "createCategory">>],
  [method |-> "PUT", pattern |-> <<":id">>,
   chain |-> <<"protect", "authorizeAdmin", "validateCategory",
               "updateCategory">>],
  [method |-> "DELETE", pattern |-> <<":id">>,
   chain |-> <<"protect", "authorizeAdmin", "deleteCategory">>] >>

RoutesOf(router) == IF router = "posts" THEN PostRoutes ELSE CategoryRoutes

\* Express matches a path against a pattern segment by segment; a parameter
\* segment matches any one segment.
PathMatches(pattern, path) ==
  /\ Len(pattern) = Len(path)
  /\ \A i \in DOMAIN pattern : pattern[i] = ":id" \/ pattern[i] = path[i]

RouteMatches(route, method, path) ==
  route.method = method /\ PathMatches(route.pattern, path)

\* The router tries its routes in declaration order.  None of the
\* controllers calls next(), so the first route that matches handles the
\* request and no later route sees it.  0: no route matches.
MatchRoute(router, method, path) ==
  LET rs == RoutesOf(router)
      hits == {i \in DOMAIN rs : RouteMatches(rs[i], method, path)}
  IN IF hits = {} THEN 0
     ELSE CHOOSE i \in hits : \A j \in hits : i <= j

\* req.params.id of the matched route
ParamId(path) == IF path = <<>> THEN "" ELSE path[1]

\* ------------------------------------------------------------- validation
Has(rec, f) == f \in DOMAIN rec

\* express-validator reads an absent field as the empty string
TextOf(body, f) == IF Has(body, f) THEN body[f] ELSE <<>>

HexColors == {"#3B82F6", "#ff0000"}

TagPaths == <<"tags[0]", "tags[1]", "tags[2]">>

\* validationResult(req).array(): one error, with the path of the field and
\* the message of the check, per failed check, in the order of the checks
\* (the value the error also carries is left out)
RECURSIVE Failed(_)
Failed(checks) ==
  IF checks = <<>> THEN <<>>
  ELSE (IF Head(checks).bad
        THEN <<[field |-> Head(checks).field, message |-> Head(checks).msg]>>
        ELSE <<>>)
         \o Failed(Tail(checks))

\* body('tags') is an array: [arr |-> TRUE, items |-> <<tag, ...>>];
\* any other value of the field has arr = FALSE
TagItems(body) ==
  IF Has(body, "tags") /\ body.tags.arr THEN body.tags.items ELSE <<>>

validatePost(body) ==
  Failed(<<
    [field |-> "title",
     msg |-> "Title must be between 1 and 100 characters",
     bad |-> ~(Len(Trim(TextOf(body, "title"))) \in 1..TitleMax)],
    [field |-> "content",
     msg |-> "Content must be at least 10 characters long",
     bad |-> ~(Len(Trim(TextOf(body, "content"))) >= ContentMin)],
    [field |-> "excerpt",
     msg |-> "Excerpt cannot be more than 200 characters",
     bad |-> Has(body, "excerpt") /\ Len(Trim(body.excerpt)) > ExcerptMax],
    [field |-> "category",
     msg |-> "Please provide a valid category ID",
     bad |-> ~(Has(body, "category") /\ isObjectId(body.category))],
    [field |-> "tags",
     msg |-> "Tags must be an array",
     bad |-> Has(body, "tags") /\ ~body.tags.arr] >>)
  \o Failed([i \in DOMAIN TagItems(body) |->
       [field |-> TagPaths[i],
        msg |-> "Each tag must be between 1 and 20 characters",
        bad |-> ~(Len(Trim(TagItems(body)[i])) \in 1..TagMax)]])

validateCategory(body) ==
  Failed(<<
    [field |-> "name",
     msg |-> "Category name must be between 1 and 50 characters",
     bad |-> ~(Len(Trim(TextOf(body, "name"))) \in 1..CategoryNameMax)],
    [field |-> "description",
     msg |-> "Description cannot be more than 200 characters",
     bad |-> Has(body, "description")
               /\ Len(Trim(body.description)) > DescriptionMax],
    [field |-> "color",
     msg |-> "Color must be a valid hex color code",
     bad |-> Has(body, "color") /\ body.color \notin HexColors] >>)

validateComment(body) ==
  Failed(<<
    [field |-> "content",
     msg |-> "Comment must be between 1 and 1000 characters",
     bad |-> ~(Len(Trim(TextOf(body, "content"))) \in 1..CommentMax)] >>)

\* the sanitizers of the chains write the trimmed values back to req.body
TrimFields(body, fields) ==
  [f \in DOMAIN body |-> IF f \in fields THEN Trim(body[f]) ELSE body[f]]

TrimTags(body) ==
  IF Has(body, "tags") /\ body.tags.arr
  THEN [body EXCEPT !.tags.items =
          [i \in DOMAIN body.tags.items |-> Trim(body.tags.items[i])]]
  ELSE body

Sanitize(mw, body) ==
  CASE mw = "validatePost" ->
         TrimTags(TrimFields(body, {"title", "content", "excerpt"}))
    [] mw = "validateCategory" -> TrimFields(body, {"name", "description"})
    [] mw = "validateComment" -> TrimFields(body, {"content"})
    [] OTHER -> body

ValidationErrors(mw, body) ==
  CASE mw = "validatePost" -> validatePost(body)
    [] mw = "validateCategory" -> validateCategory(body)
    [] mw = "validateComment" -> validateComment(body)
    [] OTHER -> <<>>

\* handleValidationErrors: 400 with one entry per failed check
handleValidationErrors_FirstOnly(errors) ==
  [status |-> 400, success |-> FALSE, errors |-> <<Head(errors)>>]
handleValidationErrors(errors) ==
  [status |-> 400, success |-> FALSE, errors |-> errors]

\* ------------------------------------------------------------- middleware
Validators == {"validatePost", "validateCategory", "validateComment"}

\* protect: 401 unless the bearer token identifies a user, who becomes
\* req.user.  authorize('admin'): 403 unless req.user has role admin.
protectRejects(req) == req.token \notin UserIds
authorizeRejects(req, role) == Users[req.token].role # role

ErrorResponse_Message(status, msg) ==
  [status |-> status, success |-> FALSE, message |-> msg]
ErrorResponse(status, msg) ==
  [status |-> status, success |-> FALSE, error |-> msg]

\* One middleware of a chain: it answers the request itself (rejected) or
\* hands the (possibly rewritten) request on.
Middleware(mw, req) ==
  CASE mw = "protect" ->
         IF protectRejects(req)
         THEN [rejected |-> TRUE, req |-> req,
               resp |-> ErrorResponse(401, "Not authorized")]
         ELSE [rejected |-> FALSE, req |-> req, resp |-> ErrorResponse(0, "")]
    [] mw = "authorizeAdmin" ->
         IF authorizeRejects(req, "admin")
         THEN [rejected |-> TRUE, req |-> req,
               resp |-> ErrorResponse(403, "Forbidden")]
         ELSE [rejected |-> FALSE, req |-> req, resp |-> ErrorResponse(0, "")]
    [] mw \in Validators ->
         IF ValidationErrors(mw, req.body) # <<>>
         THEN [rejected |-> TRUE, req |-> req,
               resp |-> handleValidationErrors(ValidationErrors(mw, req.body))]
         ELSE [rejected |-> FALSE,
               req |-> [req EXCEPT !.body = Sanitize(mw, req.body)],
               resp |-> ErrorResponse(0, "")]
    [] OTHER -> [rejected |-> FALSE, req |-> req, resp |-> ErrorResponse(0, "")]

\* The chain up to its controller (its last element).  trace lists the
\* middleware that ran, in order.
RECURSIVE RunChain(_, _, _, _)
RunChain(chain, i, req, trace) ==
  IF i >= Len(chain)
  THEN [rejected |-> FALSE, req |-> req, trace |-> trace,
        resp |-> ErrorResponse(0, "")]
  ELSE LET m == Middleware(chain[i], req)
       IN IF m.rejected
          THEN [rejected |-> TRUE, req |-> req,
                trace |-> Append(trace, chain[i]), resp |-> m.resp]
          ELSE RunChain(chain, i + 1, m.req, Append(trace, chain[i]))

\* ------------------------------------------------------------- data store
VARIABLES
  posts,       \* Post collection: id -> document
  cats,        \* Category collection: id -> document
  nextPost,    \* number of post ids handed out
  nextCat,     \* number of category ids handed out
  inflight,    \* requests being handled: request number -> its frame
  nreq,        \* number of requests received
  last,        \* the request just answered, with its response (none
               \* once a further request has been taken in)
  reads,       \* per post id: get-post requests answered 200 with the post
               \* published
  removedCats  \* ids of the categories removed so far

vars == <<posts, cats, nextPost, nextCat, inflight, nreq, last, reads,
          removedCats>>

\* ---------------------------------------------------------- client state
VARIABLES
  auth,        \* AuthContext: the reducer state { user, isAuthenticated,
               \* loading }
  calls,       \* auth calls awaiting their response: call number -> call
  ncall,       \* number of auth calls started
  nlogout,     \* number of logouts so far
  ret,         \* what the last auth call to return handed to its caller
  home,        \* Home page: its useState values
  fetches,     \* post fetches awaiting their response: number -> request
  nfetch,      \* number of post fetches started
  missed       \* a fetch ended without a successful response

avars == <<auth, calls, ncall, nlogout, ret>>
hvars == <<home, fetches, nfetch, missed>>
cvars == <<auth, calls, ncall, nlogout, ret, home, fetches, nfetch, missed>>
\* the server and the one browser tab together
allvars == <<vars, cvars>>

NoUser == "null"
NoReturn == [op |-> "none"]

\* AuthContext.jsx, initialState
initialState == [user |-> NoUser, isAuthenticated |-> FALSE, loading |-> TRUE]

NoCategory == ""

\* a request for posts: the post list (page, category) or a search (q)
ListRequest(page, category) ==
  [kind |-> "list", page |-> page, category |-> category, q |-> <<>>]
SearchRequest(q) ==
  [kind |-> "search", page |-> 1, category |-> NoCategory, q |-> q]

\* Home.jsx, the useState initial values (no search parameters in the URL):
\* posts names the request whose response data is shown, count its length
HomeInitial ==
  [posts |-> [kind |-> "none", page |-> 1, category |-> NoCategory,
              q |-> <<>>],
   count |-> 0,
   pagination |-> [totalPages |-> 0, currentPage |-> 0,
                   hasNextPage |-> FALSE, hasPrevPage |-> FALSE],
   loading |-> TRUE,
   searchQuery |-> <<>>, selectedCategory |-> NoCategory, currentPage |-> 1]

\* the client before its first effect has run
ClientIdle ==
  /\ auth = initialState
  /\ calls = [i \in {} |-> 0]
  /\ ncall = 0
  /\ nlogout = 0
  /\ ret = NoReturn
  /\ home = HomeInitial
  /\ fetches = [i \in {} |-> 0]
  /\ nfetch = 0
  /\ missed = FALSE

NoFile == ""
DefaultImage == "default-post.jpg"

\* Post model, pre-save hook: the slug is derived from the title
Slugify(title) ==
  LET t == [i \in DOMAIN Trim(title) |-> Lower(Trim(title)[i])]
  IN CASE t = <<"g", "o">> -> "go"
       [] t = <<"n", "e", "w", "s">> -> "news"
       [] OTHER -> "post"

\* Category model: the slug is derived from the name
CatSlug(name) ==
  LET t == [i \in DOMAIN Trim(name) |-> Lower(Trim(name)[i])]
  IN CASE t = <<"d", "e", "v">> -> "dev"
       [] t = <<"a", "r", "t">> -> "art"
       [] OTHER -> "category"

NDev == <<"D", "e", "v">>
NArt == <<"A", "r", "t">>

SeedCats ==
  [c \in {"c1"} |->
     [id |-> c, name |-> NDev, description |-> <<>>, color |-> "#3B82F6",
      icon |-> "folder", isActive |-> TRUE, slug |-> "dev"]]

SeedPosts ==
  [p \in {"p1", "p2"} |->
     IF p = "p1"
     THEN [title |-> TGo, content |-> CBody, excerpt |-> <<>>,
           id |-> p, category |-> "c1", tags |-> <<TagNode>>,
           isPublished |-> TRUE,
           featuredImage |-> DefaultImage, author |-> "u1", viewCount |-> 3,
           comments |-> <<>>, slug |-> "go", createdAt |-> 1]
     ELSE [title |-> TNews, content |-> CBody, excerpt |-> EIntro,
           id |-> p, category |-> "c1", tags |-> <<>>,
           isPublished |-> FALSE,
           featuredImage |-> DefaultImage, author |-> "adm", viewCount |-> 0,
           comments |-> <<>>, slug |-> "news", createdAt |-> 2]]

NoPosts == [p \in {} |-> 0]

NoRequest == [h |-> "none"]

\* The state after start-up: a store that holds one category and either two
\* posts or none (the two have been deleted), and no request received yet.
Init ==
  /\ cats = SeedCats
  /\ nextCat = 1
  /\ posts \in {SeedPosts, NoPosts}
  /\ nextPost = 2
  /\ inflight = [i \in {} |-> 0]
  /\ nreq = 0
  /\ last = NoRequest
  /\ reads = [p \in {PostIdPool[i] : i \in DOMAIN PostIdPool} |-> 0]
  /\ removedCats = {}
  /\ ClientIdle

\* ------------------------------------------------------------- queries
Min(a, b) == IF a < b THEN a ELSE b

\* .skip(skip).limit(limit) over a result list
Window_IgnoresSkip(list, skip, limit) ==
  SubSeq(list, 1, Min(Len(list), limit))
Window(list, skip, limit) ==
  SubSeq(list, skip + 1, Min(Len(list), skip + limit))

\* .sort({ [key]: dir }): every order of the ids that agrees with the keys
\* (the store leaves the order of equal keys open)
SortedLists(ids, key, dir) ==
  {l \in [1..Cardinality(ids) -> ids] :
     /\ \A i, j \in DOMAIN l : i # j => l[i] # l[j]
     /\ \A i, j \in DOMAIN l :
          i < j => IF dir = 1 THEN key[l[i]] <= key[l[j]]
                              ELSE key[l[i]] >= key[l[j]]}

\* the $or of the list and search operations: title, content or excerpt
\* match the pattern, or some tag does
TextMatch_NoTags(q, post) ==
  \/ RegexMatch(q, post.title)
  \/ RegexMatch(q, post.content)
  \/ RegexMatch(q, post.excerpt)
TextMatch(q, post) ==
  \/ RegexMatch(q, post.title)
  \/ RegexMatch(q, post.content)
  \/ RegexMatch(q, post.excerpt)
  \/ \E i \in DOMAIN post.tags : RegexMatch(q, post.tags[i])

\* a value is truthy when present and not the empty string
Truthy(q, f) == Has(q, f) /\ q[f] # ""
TruthyText(q, f) == Has(q, f) /\ Len(q[f]) > 0

\* getAllPosts: the filter built from the query string
ListFilter(q, post) ==
  /\ post.isPublished
  /\ Truthy(q, "category") => post.category = q.category
  /\ Truthy(q, "author") => post.author = q.author
  /\ TruthyText(q, "search") => TextMatch(q.search, post)

\* searchPosts: published and matching
SearchFilter_AnyStatus(q, post) == TextMatch(q.q, post)
SearchFilter(q, post) == post.isPublished /\ TextMatch(q.q, post)

Pagination(page, limit, total) ==
  [currentPage |-> page, totalPages |-> CeilDiv(total, limit),
   totalPosts |-> total, postsPerPage |-> limit]

\* --------------------------------------------------------- request frames
NoDoc == [missing |-> TRUE]

\* the frame of a request whose controller has been entered: req is the
\* request as the middleware chain hands it to the controller, sent the
\* request as it arrived
Frame(h, req, sent, trace, pc) ==
  [h |-> h, req |-> req, sent |-> sent, trace |-> trace, pc |-> pc,
   doc |-> NoDoc, list |-> <<>>]

At(id, h, pc) ==
  id \in DOMAIN inflight /\ inflight[id].h = h /\ inflight[id].pc = pc

\* res.json(...): the request leaves the server with its response
Answer(id, resp) ==
  /\ last' = [h |-> inflight[id].h, req |-> inflight[id].req,
              trace |-> inflight[id].trace, resp |-> resp]
  /\ inflight' = [i \in DOMAIN inflight \ {id} |-> inflight[i]]
  /\ UNCHANGED cvars

\* the controller goes on to its next await
Goto(id, frame) ==
  /\ inflight' = [inflight EXCEPT ![id] = frame]
  /\ UNCHANGED <<last, cvars>>

ServerError == ErrorResponse(500, "Server error")
NotFound(what) == ErrorResponse(404, what)

Ok(status, fields) == [status |-> status, success |-> TRUE] @@ fields

\* ------------------------------------------------------- post controllers
SortKey(field, post) ==
  CASE field = "createdAt" -> post.createdAt
    [] field = "viewCount" -> post.viewCount
    [] OTHER -> 0

PageOf(q) == ParseIntOr(q, "page", DefaultPage)
LimitOf(q) == ParseIntOr(q, "limit", DefaultLimit)
SkipOf(q) == (PageOf(q) - 1) * LimitOf(q)
Abs(n) == IF n < 0 THEN 0 - n ELSE n

\* Post.find(filter).sort(...).skip(skip).limit(limit): one of the result
\* lists the store may return
FoundLists(store, hits, field, dir, q) ==
  LET key == [p \in hits |-> SortKey(field, store[p])]
  IN {Window(l, SkipOf(q), Abs(LimitOf(q))) :
        l \in SortedLists(hits, key, dir)}

\* a filter value that cannot be cast to an ObjectId, or a negative skip,
\* makes the query throw
ListThrows(q) ==
  \/ Truthy(q, "category") /\ ~isObjectId(q.category)
  \/ Truthy(q, "author") /\ ~isObjectId(q.author)
  \/ SkipOf(q) < 0

SortByOf(q) == IF Truthy(q, "sortBy") THEN q.sortBy ELSE "createdAt"
SortOrderOf(q) == IF Has(q, "sortOrder") /\ q.sortOrder = "asc" THEN 1 ELSE -1

\* getAllPosts, first await: Post.find(query)...
GetAllPostsFind(id) ==
  /\ At(id, "getAllPosts", "find")
  /\ LET r == inflight[id]
         q == r.req.query
         hits == {p \in DOMAIN posts : ListFilter(q, posts[p])}
     IN IF ListThrows(q)
        THEN Answer(id, ServerError)
        ELSE \E l \in FoundLists(posts, hits, SortByOf(q), SortOrderOf(q), q) :
               Goto(id, [r EXCEPT !.pc = "count", !.list = l])
  /\ UNCHANGED <<posts, cats, nextPost, nextCat, nreq, reads, removedCats>>

\* getAllPosts, second await: Post.countDocuments(query), then the response
GetAllPostsCount(id) ==
  /\ At(id, "getAllPosts", "count")
  /\ LET r == inflight[id]
         q == r.req.query
         hits == {p \in DOMAIN posts : ListFilter(q, posts[p])}
         total == Cardinality(hits)
         pg == Pagination(PageOf(q), LimitOf(q), total)
     IN Answer(id, Ok(200,
          [posts |-> r.list,
           pagination |-> pg @@
             [hasNextPage |-> PageOf(q) < pg.totalPages,
              hasPrevPage |-> PageOf(q) > 1]]))
  /\ UNCHANGED <<posts, cats, nextPost, nextCat, nreq, reads, removedCats>>

\* searchPosts, before its first await: the query is required, and the
\* pattern is compiled
SearchEntry(req) ==
  IF ~TruthyText(req.query, "q")
  THEN ErrorResponse(400, "Search query is required")
  ELSE IF ~RegexValid(req.query.q) THEN ServerError
  ELSE ErrorResponse(0, "")

\* searchPosts, first await: Post.find(searchQuery)...
SearchPostsFind(id) ==
  /\ At(id, "searchPosts", "find")
  /\ LET r == inflight[id]
         q == r.req.query
         hits == {p \in DOMAIN posts : SearchFilter(q, posts[p])}
     IN IF SkipOf(q) < 0
        THEN Answer(id, ServerError)
        ELSE \E l \in FoundLists(posts, hits, "createdAt", -1, q) :
               Goto(id, [r EXCEPT !.pc = "count", !.list = l])
  /\ UNCHANGED <<posts, cats, nextPost, nextCat, nreq, reads, removedCats>>

\* searchPosts, second await: Post.countDocuments(searchQuery)
SearchPostsCount(id) ==
  /\ At(id, "searchPosts", "count")
  /\ LET r == inflight[id]
         q == r.req.query
         hits == {p \in DOMAIN posts : SearchFilter(q, posts[p])}
         total == Cardinality(hits)
     IN Answer(id, Ok(200,
          [posts |-> r.list,
           pagination |-> Pagination(PageOf(q), LimitOf(q), total) @@
                            [query |-> q.q]]))
  /\ UNCHANGED <<posts, cats, nextPost, nextCat, nreq, reads, removedCats>>

\* getMyPosts: the response for the requesting user over a given store
\* (find and count answered by the same store)
getMyPosts(store, req) ==
  LET q == req.query
      hits == {p \in DOMAIN store : store[p].author = req.token}
      key == [p \in hits |-> store[p].createdAt]
      l == CHOOSE x \in SortedLists(hits, key, -1) : TRUE
  IN IF SkipOf(q) < 0 THEN ServerError
     ELSE Ok(200,
            [posts |-> Window(l, SkipOf(q), Abs(LimitOf(q))),
             pagination |-> Pagination(PageOf(q), LimitOf(q),
                                       Cardinality(hits))])

\* getPost: the filter is by _id when the parameter looks like an ObjectId,
\* by slug otherwise
PostsByParam(param) ==
  IF isObjectId(param) THEN {p \in DOMAIN posts : p = param}
  ELSE {p \in DOMAIN posts : posts[p].slug = param}

\* getPost: the view count is incremented if the loaded post is published
CountsAsView_NotForAuthor(post, req) ==
  post.isPublished /\ req.token # post.author
CountsAsView_Always(post, req) == TRUE
CountsAsView(post, req) == post.isPublished

\* Post model, incrementViewCount(): the stored count goes up by one
incrementViewCount(store, p) ==
  [store EXCEPT ![p].viewCount = @ + 1]

\* getPost, first await: Post.findOne(query)
GetPostFind(id) ==
  /\ At(id, "getPost", "find")
  /\ LET r == inflight[id]
         hits == PostsByParam(ParamId(r.req.path))
     IN IF hits = {}
        THEN /\ Answer(id, NotFound("Post not found"))
             /\ UNCHANGED reads
        ELSE \E p \in hits :
               IF CountsAsView(posts[p], r.req)
               THEN /\ Goto(id, [r EXCEPT !.pc = "view", !.doc = posts[p]])
                    /\ UNCHANGED reads
               ELSE /\ Answer(id, Ok(200, [post |-> posts[p]]))
                    /\ reads' = [reads EXCEPT ![p] =
                                   IF posts[p].isPublished THEN @ + 1 ELSE @]
  /\ UNCHANGED <<posts, cats, nextPost, nextCat, nreq, removedCats>>

\* getPost, second await: post.incrementViewCount(), then the response
GetPostView(id) ==
  /\ At(id, "getPost", "view")
  /\ LET r == inflight[id]
         p == r.doc.id
     IN IF p \in DOMAIN posts
        THEN /\ posts' = incrementViewCount(posts, p)
             /\ reads' = [reads EXCEPT ![p] = @ + 1]
             /\ Answer(id, Ok(200,
                  [post |-> [r.doc EXCEPT !.viewCount = @ + 1]]))
        ELSE /\ Answer(id, ServerError)
             /\ UNCHANGED <<posts, reads>>
  /\ UNCHANGED <<cats, nextPost, nextCat, nreq, removedCats>>

\* createPost: the document handed to Post.create
NewPost(req, p, n) ==
  [id |-> p,
   title |-> req.body.title,
   content |-> req.body.content,
   excerpt |-> TextOf(req.body, "excerpt"),
   category |-> req.body.category,
   tags |-> IF Has(req.body, "tags") THEN req.body.tags.items ELSE <<>>,
   isPublished |-> IF Has(req.body, "isPublished")
                   THEN req.body.isPublished ELSE FALSE,
   featuredImage |-> IF req.file # NoFile THEN req.file ELSE DefaultImage,
   author |-> req.token,
   viewCount |-> 0,
   comments |-> <<>>,
   slug |-> Slugify(req.body.title),
   createdAt |-> n]

\* createPost, first await: Post.create(...)
CreatePostCreate(id) ==
  /\ At(id, "createPost", "create")
  /\ nextPost < Len(PostIdPool)
  /\ LET r == inflight[id]
         p == PostIdPool[nextPost + 1]
         doc == NewPost(r.req, p, nextPost + 1)
     IN /\ posts' = [x \in DOMAIN posts \cup {p} |->
                       IF x = p THEN doc ELSE posts[x]]
        /\ nextPost' = nextPost + 1
        /\ Goto(id, [r EXCEPT !.pc = "reload", !.doc = doc])
  /\ UNCHANGED <<cats, nextCat, nreq, reads, removedCats>>

\* createPost / updatePost / addComment, last await: Post.findById(id) with
\* its references populated, then the response (data is null if the post
\* is gone)
Reload(id, h, status) ==
  /\ At(id, h, "reload")
  /\ LET p == inflight[id].doc.id
     IN Answer(id, Ok(status,
          [post |-> IF p \in DOMAIN posts THEN posts[p] ELSE NoDoc]))
  /\ UNCHANGED <<posts, cats, nextPost, nextCat, nreq, reads, removedCats>>

CreatePostReload(id) == Reload(id, "createPost", 201)
UpdatePostReload(id) == Reload(id, "updatePost", 200)
AddCommentReload(id) == Reload(id, "addComment", 200)

\* updatePost / deletePost: the requester is the author or an admin
mayModify_AnyUser(post, req) == TRUE
mayModify_StaffToo(post, req) ==
  post.author = req.token \/ Users[req.token].role # "user"
mayModify(post, req) ==
  ~(post.author # req.token /\ Users[req.token].role # "admin")

\* updatePost: the fields assigned to the loaded document
Assigned(doc, req) ==
  LET b == req.body
      d1 == IF TruthyText(b, "title") THEN [doc EXCEPT !.title = b.title]
            ELSE doc
      d2 == IF TruthyText(b, "content") THEN [d1 EXCEPT !.content = b.content]
            ELSE d1
      d3 == IF Has(b, "excerpt") THEN [d2 EXCEPT !.excerpt = b.excerpt]
            ELSE d2
      d4 == IF Truthy(b, "category") THEN [d3 EXCEPT !.category = b.category]
            ELSE d3
      d5 == IF Has(b, "tags") THEN [d4 EXCEPT !.tags = b.tags.items] ELSE d4
      d6 == IF Has(b, "isPublished")
            THEN [d5 EXCEPT !.isPublished = b.isPublished] ELSE d5
  IN IF req.file # NoFile THEN [d6 EXCEPT !.featuredImage = req.file] ELSE d6

\* document.save(): the paths whose value differs from the loaded one are
\* written to the stored document; the pre-save hook renews the slug of a
\* retitled post
Saved_WholeDocument(stored, loaded, assigned) ==
  IF assigned.title # loaded.title
  THEN [assigned EXCEPT !.slug = Slugify(assigned.title)] ELSE assigned
Saved(stored, loaded, assigned) ==
  LET w == [f \in DOMAIN stored |->
              IF assigned[f] # loaded[f] THEN assigned[f] ELSE stored[f]]
  IN IF assigned.title # loaded.title
     THEN [w EXCEPT !.slug = Slugify(assigned.title)] ELSE w

\* updatePost, first await: Post.findById(id), then the owner check
UpdatePostFind(id) ==
  /\ At(id, "updatePost", "find")
  /\ LET r == inflight[id]
         p == ParamId(r.req.path)
     IN IF ~isObjectId(p) THEN Answer(id, ServerError)
        ELSE IF p \notin DOMAIN posts
        THEN Answer(id, NotFound("Post not found"))
        ELSE IF ~mayModify(posts[p], r.req)
        THEN Answer(id, ErrorResponse(403,
                          "Not authorized to update this post"))
        ELSE Goto(id, [r EXCEPT !.pc = "save", !.doc = posts[p]])
  /\ UNCHANGED <<posts, cats, nextPost, nextCat, nreq, reads, removedCats>>

\* updatePost, second await: post.save()
UpdatePostSave(id) ==
  /\ At(id, "updatePost", "save")
  /\ LET r == inflight[id]
         p == r.doc.id
     IN IF p \in DOMAIN posts
        THEN /\ posts' = [posts EXCEPT
                            ![p] = Saved(@, r.doc, Assigned(r.doc, r.req))]
             /\ Goto(id, [r EXCEPT !.pc = "reload"])
        ELSE /\ Answer(id, ServerError)
             /\ UNCHANGED posts
  /\ UNCHANGED <<cats, nextPost, nextCat, nreq, reads, removedCats>>

\* deletePost, first await: Post.findById(id), then the owner check
DeletePostFind(id) ==
  /\ At(id, "deletePost", "find")
  /\ LET r == inflight[id]
         p == ParamId(r.req.path)
     IN IF ~isObjectId(p) THEN Answer(id, ServerError)
        ELSE IF p \notin DOMAIN posts
        THEN Answer(id, NotFound("Post not found"))
        ELSE IF ~mayModify(posts[p], r.req)
        THEN Answer(id, ErrorResponse(403,
                          "Not authorized to delete this post"))
        ELSE Goto(id, [r EXCEPT !.pc = "delete", !.doc = posts[p]])
  /\ UNCHANGED <<posts, cats, nextPost, nextCat, nreq, reads, removedCats>>

\* deletePost, second await: Post.findByIdAndDelete(id)
DeletePostDelete(id) ==
  /\ At(id, "deletePost", "delete")
  /\ LET p == inflight[id].doc.id
     IN posts' = [x \in DOMAIN posts \ {p} |-> posts[x]]
  /\ Answer(id, [status |-> 200, success |-> TRUE,
                 message |-> "Post deleted successfully"])
  /\ UNCHANGED <<cats, nextPost, nextCat, nreq, reads, removedCats>>

\* addComment, first await: Post.findById(id)
AddCommentFind(id) ==
  /\ At(id, "addComment", "find")
  /\ LET r == inflight[id]
         p == ParamId(r.req.path)
     IN IF ~isObjectId(p) THEN Answer(id, ServerError)
        ELSE IF p \notin DOMAIN posts
        THEN Answer(id, NotFound("Post not found"))
        ELSE Goto(id, [r EXCEPT !.pc = "push", !.doc = posts[p]])
  /\ UNCHANGED <<posts, cats, nextPost, nextCat, nreq, reads, removedCats>>

\* Post model, addComment(user, content): the comment is pushed onto the
\* stored list
addComment(store, p, user, content) ==
  [store EXCEPT ![p].comments =
     Append(@, [user |-> user, content |-> content])]

\* addComment, second await: post.addComment(req.user._id, content)
AddCommentPush(id) ==
  /\ At(id, "addComment", "push")
  /\ LET r == inflight[id]
         p == r.doc.id
     IN IF p \in DOMAIN posts
        THEN /\ posts' = addComment(posts, p, r.req.token, r.req.body.content)
             /\ Goto(id, [r EXCEPT !.pc = "reload"])
        ELSE /\ Answer(id, ServerError)
             /\ UNCHANGED posts
  /\ UNCHANGED <<cats, nextPost, nextCat, nreq, reads, removedCats>>

\* --------------------------------------------------- category controllers
Code(c) ==
  CASE c = " " -> 1 [] c = "A" -> 2 [] c = "D" -> 3 [] c = "N" -> 4
    [] c = "a" -> 5 [] c = "d" -> 6 [] c = "e" -> 7 [] c = "r" -> 8
    [] c = "t" -> 9 [] c = "v" -> 10 [] OTHER -> 11

\* a key that orders names as the store's string comparison does, on the
\* first three characters
NameKey(name) ==
  LET at(i) == IF i <= Len(name) THEN Code(name[i]) ELSE 0
  IN at(1) * 144 + at(2) * 12 + at(3)

CatsByParam(param) ==
  IF isObjectId(param) THEN {c \in DOMAIN cats : c = param}
  ELSE {c \in DOMAIN cats : cats[c].slug = param}

CatsNamed(name) == {c \in DOMAIN cats : cats[c].name = name}

\* getAllCategories, its one await: the active categories by name
GetAllCategoriesFind(id) ==
  /\ At(id, "getAllCategories", "find")
  /\ LET hits == {c \in DOMAIN cats : cats[c].isActive}
         key == [c \in hits |-> NameKey(cats[c].name)]
     IN \E l \in SortedLists(hits, key, 1) :
          Answer(id, Ok(200, [categories |-> l]))
  /\ UNCHANGED <<posts, cats, nextPost, nextCat, nreq, reads, removedCats>>

\* getCategory, its one await: Category.findOne(query)
GetCategoryFind(id) ==
  /\ At(id, "getCategory", "find")
  /\ LET hits == CatsByParam(ParamId(inflight[id].req.path))
     IN IF hits = {}
        THEN Answer(id, NotFound("Category not found"))
        ELSE \E c \in hits : Answer(id, Ok(200, [category |-> cats[c]]))
  /\ UNCHANGED <<posts, cats, nextPost, nextCat, nreq, reads, removedCats>>

\* createCategory, first await: Category.findOne({ name })
CreateCategoryFind(id) ==
  /\ At(id, "createCategory", "find")
  /\ LET r == inflight[id]
     IN IF CatsNamed(r.req.body.name) # {}
        THEN Answer(id, ErrorResponse(400,
                          "Category with this name already exists"))
        ELSE Goto(id, [r EXCEPT !.pc = "create"])
  /\ UNCHANGED <<posts, cats, nextPost, nextCat, nreq, reads, removedCats>>

DefaultColor == "#3B82F6"
DefaultIcon == "folder"

NewCategory(req, c) ==
  [id |-> c,
   name |-> req.body.name,
   description |-> TextOf(req.body, "description"),
   color |-> IF Has(req.body, "color") THEN req.body.color ELSE DefaultColor,
   icon |-> IF Has(req.body, "icon") THEN req.body.icon ELSE DefaultIcon,
   isActive |-> TRUE,
   slug |-> CatSlug(req.body.name)]

\* createCategory, second await: Category.create(...)
CreateCategoryCreate(id) ==
  /\ At(id, "createCategory", "create")
  /\ nextCat < Len(CatIdPool)
  /\ LET r == inflight[id]
         c == CatIdPool[nextCat + 1]
         doc == NewCategory(r.req, c)
     IN /\ cats' = [x \in DOMAIN cats \cup {c} |->
                      IF x = c THEN doc ELSE cats[x]]
        /\ nextCat' = nextCat + 1
        /\ Answer(id, Ok(201, [category |-> doc]))
  /\ UNCHANGED <<posts, nextPost, nreq, reads, removedCats>>

\* updateCategory: a new name that has to be checked against the others
Renames(doc, req) ==
  TruthyText(req.body, "name") /\ req.body.name # doc.name

\* updateCategory, first await: Category.findById(id)
UpdateCategoryFind(id) ==
  /\ At(id, "updateCategory", "find")
  /\ LET r == inflight[id]
         c == ParamId(r.req.path)
     IN IF ~isObjectId(c) THEN Answer(id, ServerError)
        ELSE IF c \notin DOMAIN cats
        THEN Answer(id, NotFound("Category not found"))
        ELSE Goto(id, [r EXCEPT !.doc = cats[c],
                 !.pc = IF Renames(cats[c], r.req) THEN "check" ELSE "save"])
  /\ UNCHANGED <<posts, cats, nextPost, nextCat, nreq, reads, removedCats>>

\* updateCategory, the await taken on a rename: Category.findOne({ name })
UpdateCategoryCheck(id) ==
  /\ At(id, "updateCategory", "check")
  /\ LET r == inflight[id]
     IN IF CatsNamed(r.req.body.name) # {}
        THEN Answer(id, ErrorResponse(400,
                          "Category with this name already exists"))
        ELSE Goto(id, [r EXCEPT !.pc = "save"])
  /\ UNCHANGED <<posts, cats, nextPost, nextCat, nreq, reads, removedCats>>

\* updateCategory: the fields assigned to the loaded document
AssignedCat(doc, req) ==
  LET b == req.body
      d1 == IF TruthyText(b, "name") THEN [doc EXCEPT !.name = b.name]
            ELSE doc
      d2 == IF Has(b, "description")
            THEN [d1 EXCEPT !.description = b.description] ELSE d1
      d3 == IF Truthy(b, "color") THEN [d2 EXCEPT !.color = b.color] ELSE d2
      d4 == IF Truthy(b, "icon") THEN [d3 EXCEPT !.icon = b.icon] ELSE d3
  IN IF Has(b, "isActive") THEN [d4 EXCEPT !.isActive = b.isActive] ELSE d4

SavedCat(stored, loaded, assigned) ==
  LET w == [f \in DOMAIN stored |->
              IF assigned[f] # loaded[f] THEN assigned[f] ELSE stored[f]]
  IN IF assigned.name # loaded.name
     THEN [w EXCEPT !.slug = CatSlug(assigned.name)] ELSE w

\* updateCategory, last await: category.save(), then the response
UpdateCategorySave(id) ==
  /\ At(id, "updateCategory", "save")
  /\ LET r == inflight[id]
         c == r.doc.id
     IN IF c \in DOMAIN cats
        THEN /\ cats' = [cats EXCEPT
                           ![c] = SavedCat(@, r.doc, AssignedCat(r.doc, r.req))]
             /\ Answer(id, Ok(200, [category |-> cats'[c]]))
        ELSE /\ Answer(id, ServerError)
             /\ UNCHANGED cats
  /\ UNCHANGED <<posts, nextPost, nextCat, nreq, reads, removedCats>>

\* deleteCategory, first await: Category.findById(id)
DeleteCategoryFind(id) ==
  /\ At(id, "deleteCategory", "find")
  /\ LET r == inflight[id]
         c == ParamId(r.req.path)
     IN IF ~isObjectId(c) THEN Answer(id, ServerError)
        ELSE IF c \notin DOMAIN cats
        THEN Answer(id, NotFound("Category not found"))
        ELSE Goto(id, [r EXCEPT !.pc = "count", !.doc = cats[c]])
  /\ UNCHANGED <<posts, cats, nextPost, nextCat, nreq, reads, removedCats>>

\* Post.countDocuments({ category: id })
postCount(c) == Cardinality({p \in DOMAIN posts : posts[p].category = c})

\* deleteCategory: the delete is refused when the category has posts
RefusesDelete_Never(count) == FALSE
RefusesDelete(count) == count > 0

\* deleteCategory, second await: Post.countDocuments({ category: id })
DeleteCategoryCount(id) ==
  /\ At(id, "deleteCategory", "count")
  /\ LET r == inflight[id]
     IN IF RefusesDelete(postCount(r.doc.id))
        THEN Answer(id, ErrorResponse(400, "Cannot delete category"))
        ELSE Goto(id, [r EXCEPT !.pc = "delete"])
  /\ UNCHANGED <<posts, cats, nextPost, nextCat, nreq, reads, removedCats>>

\* deleteCategory, last await: Category.findByIdAndDelete(id)
DeleteCategoryDelete(id) ==
  /\ At(id, "deleteCategory", "delete")
  /\ LET c == inflight[id].doc.id
     IN /\ cats' = [x \in DOMAIN cats \ {c} |-> cats[x]]
        /\ removedCats' = removedCats \cup ({c} \cap DOMAIN cats)
  /\ Answer(id, [status |-> 200, success |-> TRUE,
                 message |-> "Category deleted successfully"])
  /\ UNCHANGED <<posts, nextPost, nextCat, nreq, reads>>

\* getPostsByCategory, first await: Category.findOne(categoryQuery)
GetPostsByCategoryFindCat(id) ==
  /\ At(id, "getPostsByCategory", "findCat")
  /\ LET r == inflight[id]
         hits == CatsByParam(ParamId(r.req.path))
     IN IF hits = {}
        THEN Answer(id, NotFound("Category not found"))
        ELSE \E c \in hits : Goto(id, [r EXCEPT !.pc = "find", !.doc = cats[c]])
  /\ UNCHANGED <<posts, cats, nextPost, nextCat, nreq, reads, removedCats>>

InCategory(c, post) == post.category = c /\ post.isPublished

\* getPostsByCategory, second await: Post.find({ category, isPublished })
GetPostsByCategoryFind(id) ==
  /\ At(id, "getPostsByCategory", "find")
  /\ LET r == inflight[id]
         q == r.req.query
         hits == {p \in DOMAIN posts : InCategory(r.doc.id, posts[p])}
     IN IF SkipOf(q) < 0
        THEN Answer(id, ServerError)
        ELSE \E l \in FoundLists(posts, hits, "createdAt", -1, q) :
               Goto(id, [r EXCEPT !.pc = "count", !.list = l])
  /\ UNCHANGED <<posts, cats, nextPost, nextCat, nreq, reads, removedCats>>

\* getPostsByCategory, last await: Post.countDocuments(...)
GetPostsByCategoryCount(id) ==
  /\ At(id, "getPostsByCategory", "count")
  /\ LET r == inflight[id]
         q == r.req.query
         hits == {p \in DOMAIN posts : InCategory(r.doc.id, posts[p])}
         total == Cardinality(hits)
     IN Answer(id, Ok(200,
          [category |-> r.doc, posts |-> r.list,
           pagination |-> Pagination(PageOf(q), LimitOf(q), total)]))
  /\ UNCHANGED <<posts, cats, nextPost, nextCat, nreq, reads, removedCats>>

\* ------------------------------------------------------ receiving requests
\* what a controller does before its first await: an answer, or status 0
\* when it goes on to the data store
Entry(h, req) ==
  CASE h = "searchPosts" -> SearchEntry(req)
    [] h = "getAllPosts" ->
         IF TruthyText(req.query, "search") /\ ~RegexValid(req.query.search)
         THEN ServerError ELSE ErrorResponse(0, "")
    [] OTHER -> ErrorResponse(0, "")

FirstPc(h) ==
  CASE h = "createPost" -> "create"
    [] h = "getPostsByCategory" -> "findCat"
    [] OTHER -> "find"

\* post and category ids already promised to requests in flight
Pending(h) == Cardinality({i \in DOMAIN inflight :
                             inflight[i].h = h /\ inflight[i].pc # "reload"})

HasRoom(h) ==
  /\ h = "createPost" => nextPost + Pending(h) < MaxPosts
  /\ h = "createCategory" => nextCat + Pending(h) < MaxCats

\* The router takes a request: the first matching route's middleware chain
\* runs, then its controller up to the first await.  cap: how many requests
\* the server handles at a time.
Accept(req, cap) ==
  /\ nreq < MaxReq
  /\ Cardinality(DOMAIN inflight) < cap
  /\ nreq' = nreq + 1
  /\ UNCHANGED cvars
  /\ LET i == MatchRoute(req.router, req.method, req.path)
     IN IF i = 0
        THEN /\ last' = [h |-> "notFound", req |-> req, trace |-> <<>>,
                         resp |-> NotFound("Route not found")]
             /\ UNCHANGED inflight
        ELSE LET chain == RoutesOf(req.router)[i].chain
                 h == chain[Len(chain)]
                 run == RunChain(chain, 1, req, <<>>)
                 e == Entry(h, run.req)
             IN /\ HasRoom(h)
                /\ IF run.rejected
                   THEN /\ last' = [h |-> h, req |-> req, trace |-> run.trace,
                                    resp |-> run.resp]
                        /\ UNCHANGED inflight
                   ELSE IF e.status # 0
                   THEN /\ last' = [h |-> h, req |-> run.req,
                                    trace |-> Append(run.trace, h), resp |-> e]
                        /\ UNCHANGED inflight
                   ELSE /\ inflight' =
                             [x \in DOMAIN inflight \cup {nreq + 1} |->
                                IF x = nreq + 1
                                THEN Frame(h, run.req, req,
                                           Append(run.trace, h), FirstPc(h))
                                ELSE inflight[x]]
                        /\ last' = NoRequest
  /\ UNCHANGED <<posts, cats, nextPost, nextCat, reads, removedCats>>

NoBody == [ct |-> "none"]
NoQuery == [f \in {} |-> ""]

Req(router, method, path, token, query, body, file) ==
  [router |-> router, method |-> method, path |-> path, token |-> token,
   query |-> query, body |-> body, file |-> file]

\* ---------------------------------------------------------------- inputs
PostIds == {PostIdPool[i] : i \in 1..MaxPosts}
CatIds == {CatIdPool[i] : i \in 1..MaxCats}
PostParams == PostIds \cup {GhostId, "go", "my-posts"}
CatParams == CatIds \cup {GhostId, "dev"}
Files == {NoFile, "img.png"}

QNode == <<"n", "o", "d", "e">>
QUpper == <<"N", "O">>
QDot == <<"n", ".", "d">>
QBad == <<"(">>
QWords == <<"w", "o", "r", "d", "s">>

ListQueries == <<
  NoQuery,
  [page |-> "2", limit |-> "1"],
  [page |-> "3", limit |-> "2"],
  [page |-> "-1"],
  [page |-> "0", limit |-> "abc"],
  [search |-> QNode],
  [search |-> QBad],
  [category |-> "c1", author |-> "u1", limit |-> "1"],
  [category |-> "dev"],
  [sortBy |-> "viewCount", sortOrder |-> "asc"] >>

SearchQueries == <<
  NoQuery,
  [q |-> <<>>],
  [q |-> QNode],
  [q |-> QUpper],
  [q |-> QDot, page |-> "1", limit |-> "1"],
  [q |-> QUpper, page |-> "2", limit |-> "1"],
  [q |-> QBad],
  [q |-> QWords] >>

PageQueries == <<NoQuery, [page |-> "2", limit |-> "1"], [page |-> "-1"]>>

\* the create-post page: the form fields and the tags entered
CreateForm ==
  [title |-> TGo, content |-> CBody, category |-> "c1",
   isPublished |-> TRUE, tags |-> <<TagWeb>>]

\* CreatePost.jsx, onSubmit: the FormData built from the form.  Every value
\* appended is a string: the flag as "true" or "false", a missing excerpt
\* as the empty string, and the tags, when there are any, as the JSON text
\* of the array.
onSubmit(form) ==
  [ct |-> "multipart",
   title |-> form.title,
   content |-> form.content,
   excerpt |-> IF Has(form, "excerpt") THEN form.excerpt ELSE <<>>,
   category |-> form.category,
   isPublished |-> IF form.isPublished THEN "true" ELSE "false"]
  @@ (IF Len(form.tags) > 0
      THEN [tags |-> [arr |-> FALSE, items |-> form.tags]]
      ELSE [f \in {} |-> FALSE])

PostBodies == <<
  [ct |-> "json", title |-> TGo, content |-> CBody, category |-> "c1",
   tags |-> [arr |-> TRUE, items |-> <<TagWeb>>], isPublished |-> TRUE],
  [ct |-> "json", title |-> <<" ">> \o TNews, content |-> CBody,
   category |-> "c1"],
  [ct |-> "json", title |-> TNews, content |-> CBody, excerpt |-> EIntro,
   category |-> GhostId, isPublished |-> TRUE],
  [ct |-> "json", title |-> TNews, content |-> CBody, category |-> "c2",
   tags |-> [arr |-> TRUE, items |-> <<TagNode, TagWeb>>],
   isPublished |-> FALSE],
  [ct |-> "json", title |-> TBlank, content |-> CShort, category |-> "dev"],
  [ct |-> "json", title |-> Str(TitleMax + 1, "x"), content |-> CBody,
   category |-> "c1", tags |-> [arr |-> TRUE, items |-> <<TBlank>>]],
  onSubmit(CreateForm) >>

CommentBodies == <<
  [ct |-> "json", content |-> <<"o", "k", " ">>],
  [ct |-> "json", content |-> TBlank],
  [ct |-> "json"] >>

CatBodies == <<
  [ct |-> "json", name |-> NArt],
  [ct |-> "json", name |-> NDev, isActive |-> FALSE],
  [ct |-> "json", name |-> NArt \o <<" ">>, description |-> EIntro,
   color |-> "#ff0000", icon |-> "star"],
  [ct |-> "json", name |-> TBlank],
  [ct |-> "json", name |-> NArt, color |-> "red"] >>

\* The requests below are the ones the model sends.  A request without a
\* token, or with a body that fails validation, is answered by the
\* middleware whatever else it carries, so one of each kind is sent.
ValidPostBodies == {1, 2, 3, 4}

ReceiveListPosts(cap) ==
  \E t \in Tokens, i \in DOMAIN ListQueries :
    /\ t = NoToken
    /\ Accept(Req("posts", "GET", <<>>, t, ListQueries[i], NoBody, NoFile),
              cap)

ReceiveSearchPosts(cap) ==
  \E t \in Tokens, i \in DOMAIN SearchQueries :
    /\ t = NoToken
    /\ Accept(Req("posts", "GET", <<"search">>, t, SearchQueries[i],
                  NoBody, NoFile), cap)

ReceiveGetPost(cap) ==
  \E t \in Tokens, p \in PostParams :
    /\ t = NoToken \/ p \in {"p1", "my-posts"}
    /\ Accept(Req("posts", "GET", <<p>>, t, NoQuery, NoBody, NoFile), cap)

ReceiveCreatePost(cap) ==
  \E t \in Tokens, i \in DOMAIN PostBodies, f \in Files :
    /\ t = NoToken => i = 1
    /\ t # "u1" => i \in {1, 3}
    /\ f # NoFile => t = "u1" /\ i = 1
    /\ Accept(Req("posts", "POST", <<>>, t, NoQuery, PostBodies[i], f), cap)

ReceiveUpdatePost(cap) ==
  \E t \in Tokens, p \in PostParams, i \in DOMAIN PostBodies, f \in Files :
    /\ t = NoToken => i = 1 /\ p = "p1"
    /\ p \notin {"p1", "p2"} => t = "adm" /\ i = 1
    /\ i \notin ValidPostBodies => t = "u1" /\ p = "p1"
    /\ i \in {3, 4} => t = "u1"
    /\ f # NoFile => t = "u1" /\ i = 2
    /\ Accept(Req("posts", "PUT", <<p>>, t, NoQuery, PostBodies[i], f), cap)

ReceiveDeletePost(cap) ==
  \E t \in Tokens, p \in PostParams :
    /\ p \notin {"p1", "p2"} => t = "adm"
    /\ Accept(Req("posts", "DELETE", <<p>>, t, NoQuery, NoBody, NoFile), cap)

ReceiveAddComment(cap) ==
  \E t \in Tokens, p \in PostParams, i \in DOMAIN CommentBodies :
    /\ t = NoToken \/ i # 1 => p = "p1"
    /\ i # 1 => t = "u1"
    /\ p \notin {"p1", "p2"} => t = "mod"
    /\ Accept(Req("posts", "POST", <<p, "comments">>, t, NoQuery,
                  CommentBodies[i], NoFile), cap)

ReceiveListCategories(cap) ==
  \E t \in Tokens :
    /\ t = NoToken
    /\ Accept(Req("categories", "GET", <<>>, t, NoQuery, NoBody, NoFile), cap)

ReceiveGetCategory(cap) ==
  \E t \in Tokens, c \in CatParams :
    /\ t = NoToken
    /\ Accept(Req("categories", "GET", <<c>>, t, NoQuery, NoBody, NoFile),
              cap)

ReceivePostsByCategory(cap) ==
  \E c \in CatParams, i \in DOMAIN PageQueries :
    /\ i # 1 => c = "c1"
    /\ Accept(Req("categories", "GET", <<c, "posts">>, NoToken,
                  PageQueries[i], NoBody, NoFile), cap)

ReceiveCreateCategory(cap) ==
  \E t \in Tokens, i \in DOMAIN CatBodies :
    /\ t # "adm" => i = 1
    /\ Accept(Req("categories", "POST", <<>>, t, NoQuery, CatBodies[i],
                  NoFile), cap)

ReceiveUpdateCategory(cap) ==
  \E t \in Tokens, c \in CatParams, i \in DOMAIN CatBodies :
    /\ t # "adm" => i = 1 /\ c = "c1"
    /\ c \notin CatIds => i = 1
    /\ Accept(Req("categories", "PUT", <<c>>, t, NoQuery, CatBodies[i],
                  NoFile), cap)

ReceiveDeleteCategory(cap) ==
  \E t \in Tokens, c \in CatParams :
    /\ t # "adm" => c = "c1"
    /\ Accept(Req("categories", "DELETE", <<c>>, t, NoQuery, NoBody, NoFile),
              cap)

Receive(cap) ==
  \/ ReceiveListPosts(cap)
  \/ ReceiveSearchPosts(cap)
  \/ ReceiveGetPost(cap)
  \/ ReceiveCreatePost(cap)
  \/ ReceiveUpdatePost(cap)
  \/ ReceiveDeletePost(cap)
  \/ ReceiveAddComment(cap)
  \/ ReceiveListCategories(cap)
  \/ ReceiveGetCategory(cap)
  \/ ReceivePostsByCategory(cap)
  \/ ReceiveCreateCategory(cap)
  \/ ReceiveUpdateCategory(cap)
  \/ ReceiveDeleteCategory(cap)

\* one data-store round trip of one request in flight
Step ==
  \E id \in 1..MaxReq :
    \/ GetAllPostsFind(id)
    \/ GetAllPostsCount(id)
    \/ SearchPostsFind(id)
    \/ SearchPostsCount(id)
    \/ GetPostFind(id)
    \/ GetPostView(id)
    \/ CreatePostCreate(id)
    \/ CreatePostReload(id)
    \/ UpdatePostFind(id)
    \/ UpdatePostSave(id)
    \/ UpdatePostReload(id)
    \/ DeletePostFind(id)
    \/ DeletePostDelete(id)
    \/ AddCommentFind(id)
    \/ AddCommentPush(id)
    \/ AddCommentReload(id)
    \/ GetAllCategoriesFind(id)
    \/ GetCategoryFind(id)
    \/ CreateCategoryFind(id)
    \/ CreateCategoryCreate(id)
    \/ UpdateCategoryFind(id)
    \/ UpdateCategoryCheck(id)
    \/ UpdateCategorySave(id)
    \/ DeleteCategoryFind(id)
    \/ DeleteCategoryCount(id)
    \/ DeleteCategoryDelete(id)
    \/ GetPostsByCategoryFindCat(id)
    \/ GetPostsByCategoryFind(id)
    \/ GetPostsByCategoryCount(id)

\* requests overlap: up to MaxInFlight are handled at a time
Next == Step \/ Receive(MaxInFlight)
Spec == Init /\ [][Next]_allvars

\* requests one at a time: each is answered before the next is received
NextSeq == Step \/ Receive(1)
SpecSeq == Init /\ [][NextSeq]_allvars

\* ========================================================== client: auth
\* the users the API answers with
AuthUsers == {"u1", "adm"}

\* AuthContext.jsx, authReducer
authReducer_FailKeepsLoading(state, action) ==
  CASE action.type = "LOGIN_SUCCESS" ->
         [state EXCEPT !.user = action.user, !.isAuthenticated = TRUE,
                       !.loading = FALSE]
    [] action.type \in {"LOGIN_FAIL", "LOGOUT"} ->
         [state EXCEPT !.user = NoUser, !.isAuthenticated = FALSE]
    [] action.type = "UPDATE_USER" -> [state EXCEPT !.user = action.user]
    [] action.type = "SET_LOADING" -> [state EXCEPT !.loading = action.loading]
    [] OTHER -> state
authReducer(state, action) ==
  CASE action.type = "LOGIN_SUCCESS" ->
         [state EXCEPT !.user = action.user, !.isAuthenticated = TRUE,
                       !.loading = FALSE]
    [] action.type \in {"LOGIN_FAIL", "LOGOUT"} ->
         [state EXCEPT !.user = NoUser, !.isAuthenticated = FALSE,
                       !.loading = FALSE]
    [] action.type = "UPDATE_USER" -> [state EXCEPT !.user = action.user]
    [] action.type = "SET_LOADING" -> [state EXCEPT !.loading = action.loading]
    [] OTHER -> state

\* how an awaited API call ends: response.success true, response.success
\* false, or a rejected promise
Outcomes == {"ok", "refused", "threw"}

\* an auth call awaiting its response: the user the API will answer with,
\* and the number of logouts when it started
Call(op, user) == [op |-> op, user |-> user, epoch |-> nlogout]

StartCall(c) ==
  /\ ncall' = ncall + 1
  /\ calls' = [i \in DOMAIN calls \cup {ncall + 1} |->
                 IF i = ncall + 1 THEN c ELSE calls[i]]

EndCall(i) == calls' = [j \in DOMAIN calls \ {i} |-> calls[j]]

\* App: the pages, and with them every caller of login, register, logout
\* and updateProfile, are rendered only while loading is false
PagesShown == ncall >= 1 /\ ~auth.loading

\* the mount effect, checkAuth: without a token only the finally block runs
CheckAuth ==
  /\ ncall = 0
  /\ \E token \in AuthUsers \cup {NoUser} :
       IF token = NoUser
       THEN /\ auth' = authReducer(auth, [type |-> "SET_LOADING",
                                          loading |-> FALSE])
            /\ ncall' = ncall + 1
            /\ UNCHANGED calls
       ELSE /\ StartCall(Call("checkAuth", token))
            /\ UNCHANGED auth
  /\ UNCHANGED <<nlogout, ret, hvars, vars>>

\* checkAuth from the response of getCurrentUser on
CheckAuthReturns(i) ==
  /\ i \in DOMAIN calls
  /\ calls[i].op = "checkAuth"
  /\ \E o \in Outcomes :
       auth' = authReducer(
                 IF o = "ok"
                 THEN authReducer(auth, [type |-> "LOGIN_SUCCESS",
                                         user |-> calls[i].user])
                 ELSE auth,
                 [type |-> "SET_LOADING", loading |-> FALSE])
  /\ EndCall(i)
  /\ UNCHANGED <<ncall, nlogout, ret, hvars, vars>>

\* login and register up to their await
Enter(op) ==
  /\ PagesShown
  /\ ncall < MaxCalls
  /\ \E u \in AuthUsers : StartCall(Call(op, u))
  /\ auth' = authReducer(auth, [type |-> "SET_LOADING", loading |-> TRUE])
  /\ UNCHANGED <<nlogout, ret, hvars, vars>>

\* login and register from the response on
Returns(i, op) ==
  /\ i \in DOMAIN calls
  /\ calls[i].op = op
  /\ \E o \in Outcomes :
       /\ auth' = authReducer(auth,
                     IF o = "ok"
                     THEN [type |-> "LOGIN_SUCCESS", user |-> calls[i].user]
                     ELSE [type |-> "LOGIN_FAIL"])
       /\ ret' = [op |-> op, success |-> o = "ok", outcome |-> o]
  /\ EndCall(i)
  /\ UNCHANGED <<ncall, nlogout, hvars, vars>>

Login == Enter("login")
LoginReturns(i) == Returns(i, "login")
Register == Enter("register")
RegisterReturns(i) == Returns(i, "register")

\* logout
Logout ==
  /\ PagesShown
  /\ nlogout < MaxLogouts
  /\ auth' = authReducer(auth, [type |-> "LOGOUT"])
  /\ nlogout' = nlogout + 1
  /\ UNCHANGED <<calls, ncall, ret, hvars, vars>>

\* updateProfile up to its await (the profile page is a protected route)
UpdateProfile ==
  /\ PagesShown
  /\ auth.isAuthenticated
  /\ ncall < MaxCalls
  /\ StartCall(Call("updateProfile", auth.user))
  /\ UNCHANGED <<auth, nlogout, ret, hvars, vars>>

\* updateProfile from the response on
UpdateProfileReturns(i) ==
  /\ i \in DOMAIN calls
  /\ calls[i].op = "updateProfile"
  /\ \E o \in Outcomes :
       /\ auth' = IF o = "ok"
                  THEN authReducer(auth, [type |-> "UPDATE_USER",
                                          user |-> calls[i].user])
                  ELSE auth
       /\ ret' = [op |-> "updateProfile", success |-> o = "ok",
                  outcome |-> o]
  /\ EndCall(i)
  /\ UNCHANGED <<ncall, nlogout, hvars, vars>>

NextAuth ==
  \/ CheckAuth
  \/ Login
  \/ Register
  \/ Logout
  \/ UpdateProfile
  \/ \E i \in 1..MaxCalls :
       \/ CheckAuthReturns(i)
       \/ LoginReturns(i)
       \/ RegisterReturns(i)
       \/ UpdateProfileReturns(i)

\* the auth store of one browser tab, the API answering in any order
InitClient == Init /\ posts = SeedPosts
SpecAuth == InitClient /\ [][NextAuth]_allvars

\* ========================================================== client: home
\* What the API holds, as the Home page sees it: how many pages of posts
\* each request has (12 a page for the list, 10 for the search).
HomeCategories == {"c1", "c2"}
PageSize == 12

TotalPagesOf(req) ==
  IF req.kind = "search"
  THEN IF Trim(req.q) = TGo THEN 2 ELSE 0
  ELSE IF req.category = "c2" THEN 1 ELSE 2

\* the successful response to a request: data (named by the request it
\* answers), its length, and the pagination object
ResponseTo(req) ==
  LET n == TotalPagesOf(req)
  IN [posts |-> req,
      count |-> IF req.page > n THEN 0
                ELSE IF req.page < n THEN PageSize ELSE 1,
      pagination |-> [totalPages |-> n, currentPage |-> req.page,
                      hasNextPage |-> req.page < n,
                      hasPrevPage |-> req.page > 1]]

\* a fetch awaiting its response: the request, and the handler that sent it
Fetch(req, by) == [req |-> req, by |-> by]

\* fetchPosts(page) up to its await, called from a render in which
\* selectedCategory was category; h is the page state as the handler has
\* already changed it
WithFetches(h, new) ==
  /\ home' = [h EXCEPT !.loading = TRUE]
  /\ nfetch' = nfetch + Len(new)
  /\ fetches' = [i \in DOMAIN fetches \cup (nfetch + 1)..(nfetch + Len(new))
                  |-> IF i > nfetch THEN new[i - nfetch] ELSE fetches[i]]

\* useEffect(..., [selectedCategory, currentPage]): after a render that
\* changed one of the two, fetchPosts(currentPage) with the new values
Effect(old, h) ==
  IF h.selectedCategory # old.selectedCategory
     \/ h.currentPage # old.currentPage
  THEN <<Fetch(ListRequest(h.currentPage, h.selectedCategory), "effect")>>
  ELSE <<>>

\* the first render and its effect
Mount ==
  /\ nfetch = 0
  /\ WithFetches(home, <<Fetch(ListRequest(home.currentPage,
                                           home.selectedCategory), "mount")>>)
  /\ UNCHANGED <<missed, avars, vars>>

\* the page below the hero is replaced by a spinner while loading with no
\* posts; the page buttons are rendered when not loading, with posts, and
\* with more than one page
Rendered == nfetch >= 1 /\ ~(home.loading /\ home.count = 0)
PageButtons ==
  IF Rendered /\ ~home.loading /\ home.count > 0
     /\ home.pagination.totalPages > 1
  THEN 1..home.pagination.totalPages ELSE {}

\* onChange of the search input
TypeQuery ==
  /\ Rendered
  /\ \E q \in {TBlank, TGo} :
       /\ q # home.searchQuery
       /\ home' = [home EXCEPT !.searchQuery = q]
  /\ UNCHANGED <<fetches, nfetch, missed, avars, vars>>

\* handleSearch: nothing happens for a blank query
handleSearch ==
  /\ Rendered
  /\ IF Trim(home.searchQuery) # <<>>
     THEN /\ nfetch < MaxFetches
          /\ WithFetches(home, <<Fetch(SearchRequest(home.searchQuery),
                                        "search")>>)
     ELSE UNCHANGED <<home, fetches, nfetch>>
  /\ UNCHANGED <<missed, avars, vars>>

\* handleCategoryFilter, and the effect of the render that follows
handleCategoryFilter ==
  /\ Rendered
  /\ nfetch < MaxFetches
  /\ \E c \in HomeCategories :
       LET h == [home EXCEPT
                   !.selectedCategory = IF c = home.selectedCategory
                                        THEN NoCategory ELSE c,
                   !.currentPage = 1,
                   !.searchQuery = <<>>]
       IN WithFetches(h, Effect(home, h))
  /\ UNCHANGED <<missed, avars, vars>>

\* handlePageChange: fetchPosts(page) of the current render, then the
\* effect of the next
handlePageChange ==
  /\ nfetch + 1 < MaxFetches
  /\ \E page \in PageButtons :
       LET h == [home EXCEPT !.currentPage = page]
       IN WithFetches(h, <<Fetch(ListRequest(page, home.selectedCategory),
                                 "page")>> \o Effect(home, h))
  /\ UNCHANGED <<missed, avars, vars>>

\* resetFilters: fetchPosts(1) of the current render, then the effect of
\* the next
resetFilters ==
  /\ Rendered
  /\ nfetch + 1 < MaxFetches
  /\ LET h == [home EXCEPT !.selectedCategory = NoCategory,
                           !.searchQuery = <<>>, !.currentPage = 1]
     IN WithFetches(h, <<Fetch(ListRequest(1, home.selectedCategory),
                               "reset")>> \o Effect(home, h))
  /\ UNCHANGED <<missed, avars, vars>>

\* fetchPosts and handleSearch from the response on
FetchReturns(i) ==
  /\ i \in DOMAIN fetches
  /\ \E o \in Outcomes :
       LET r == ResponseTo(fetches[i].req)
       IN /\ home' = IF o = "ok"
                     THEN [home EXCEPT !.posts = r.posts, !.count = r.count,
                                       !.pagination = r.pagination,
                                       !.loading = FALSE]
                     ELSE [home EXCEPT !.loading = FALSE]
          /\ missed' = (missed \/ o # "ok")
  /\ fetches' = [j \in DOMAIN fetches \ {i} |-> fetches[j]]
  /\ UNCHANGED <<nfetch, avars, vars>>

NextHome ==
  \/ Mount
  \/ TypeQuery
  \/ handleSearch
  \/ handleCategoryFilter
  \/ handlePageChange
  \/ resetFilters
  \/ \E i \in 1..MaxFetches : FetchReturns(i)

\* the Home page of one browser tab, the API answering in any order
SpecHome == InitClient /\ [][NextHome]_allvars

\* ================================================================= claims
\* the request whose controller took a step in this transition
Moved(id) ==
  /\ id \in DOMAIN inflight
  /\ id \notin DOMAIN inflight' \/ inflight'[id] # inflight[id]

\* the controller of the answered request was entered
ControllerRan(l) == l.trace # <<>> /\ l.trace[Len(l.trace)] = l.h

Range(seq) == {seq[i] : i \in DOMAIN seq}

C2_DeleteCategoryGuard ==
  [][\A id \in 1..MaxReq :
       (/\ Moved(id)
        /\ inflight[id].h = "deleteCategory"
        /\ id \notin DOMAIN inflight'
        /\ ParamId(inflight[id].req.path) \in DOMAIN cats)
       => LET c == ParamId(inflight[id].req.path)
          IN IF postCount(c) > 0
             THEN last'.resp.status = 400 /\ c \in DOMAIN cats'
                    /\ cats'[c] = cats[c]
             ELSE last'.resp.status = 200 /\ c \notin DOMAIN cats']_vars

C2_Witness ==
  /\ last.h = "deleteCategory"
  /\ last.resp.status = 200
  /\ "c1" \in removedCats
  /\ "c1" \notin DOMAIN cats

\* C3: a post's view count is its initial count plus the number of get-post
\* requests answered 200 with the post published, whoever sent them.
BaseViews(p) == IF p \in DOMAIN SeedPosts THEN SeedPosts[p].viewCount ELSE 0

C3_ViewCountCountsReads ==
  \A p \in DOMAIN posts : posts[p].viewCount = BaseViews(p) + reads[p]

C3_Witness ==
  /\ last.h = "getPost"
  /\ last.resp.status = 200
  /\ last.req.token = "u1"
  /\ "p1" \in DOMAIN posts
  /\ posts["p1"].author = "u1"
  /\ reads["p1"] = 2
  /\ posts["p1"].viewCount = BaseViews("p1") + 2

\* C4: an authenticated GET of my-posts is handled by getMyPosts and is
\* answered with the requester's posts and the pagination data.
C4_MyPostsRouted ==
  (/\ last.h # "none"
   /\ last.req.router = "posts"
   /\ last.req.method = "GET"
   /\ last.req.path = <<"my-posts">>
   /\ last.req.token \in UserIds)
  => /\ last.h = "getMyPosts"
     /\ last.resp = getMyPosts(posts, last.req)

\* C5: a search without a query, or with an empty one, is answered 400 and
\* carries no posts; a search with a query is answered 200, and a published
\* post that the query matches in a tag only is among the posts returned
\* whenever the page asked for holds all the results.
TagOnly(q, post) ==
  /\ \E i \in DOMAIN post.tags : RegexMatch(q, post.tags[i])
  /\ ~RegexMatch(q, post.title)
  /\ ~RegexMatch(q, post.content)
  /\ ~RegexMatch(q, post.excerpt)

C5_SearchByTag ==
  last.h = "searchPosts" =>
    IF ~TruthyText(last.req.query, "q")
    THEN last.resp.status = 400 /\ ~Has(last.resp, "posts")
    ELSE (RegexValid(last.req.query.q) /\ SkipOf(last.req.query) >= 0)
         => /\ last.resp.status = 200
            /\ \A p \in DOMAIN posts :
                 (/\ posts[p].isPublished
                  /\ TagOnly(last.req.query.q, posts[p])
                  /\ PageOf(last.req.query) = 1
                  /\ last.resp.pagination.totalPosts
                       <= LimitOf(last.req.query))
                 => p \in Range(last.resp.posts)

C5_Witness ==
  /\ last.h = "searchPosts"
  /\ last.resp.status = 200
  /\ "p1" \in DOMAIN posts
  /\ TagOnly(last.req.query.q, posts["p1"])
  /\ "p1" \in Range(last.resp.posts)

\* C6: a post list answered for a page beyond totalPages, with a limit of
\* at least one, holds no post and has hasNextPage false.
C6_PageBeyondLast ==
  (/\ last.h = "getAllPosts"
   /\ last.resp.status = 200
   /\ last.resp.pagination.postsPerPage >= 1
   /\ last.resp.pagination.currentPage > last.resp.pagination.totalPages)
  => /\ last.resp.posts = <<>>
     /\ ~last.resp.pagination.hasNextPage

C6_Witness ==
  /\ last.h = "getAllPosts"
  /\ last.resp.status = 200
  /\ last.resp.pagination.totalPages = 1
  /\ last.resp.pagination.currentPage = 3
  /\ last.resp.posts = <<>>

\* C7: the category and the author stored in a post that create-post has
\* just created are a stored category and a user.
C7_NewPostRefsExist ==
  (/\ last.h = "createPost"
   /\ last.resp.status = 201
   /\ Has(last.resp.post, "category"))
  => /\ last.resp.post.category \in DOMAIN cats
     /\ last.resp.post.author \in UserIds

\* C8: no step removes a category that a stored post references.
C8_NoRemovalWhileReferenced ==
  [][\A c \in DOMAIN cats :
       c \notin DOMAIN cats' => \A p \in DOMAIN posts : posts[p].category # c
    ]_vars

\* C9: a post is removed, or its title, content, excerpt, category, tags,
\* published flag or featured image changes, only in the save step of an
\* update-post request or the delete step of a delete-post request for that
\* post, sent by its author or by an admin.
ContentOf(post) ==
  <<post.title, post.content, post.excerpt, post.category, post.tags,
    post.isPublished, post.featuredImage>>

CategoryWrites == {"createCategory", "updateCategory", "deleteCategory"}

PassedAdminGate(fr) ==
  /\ Len(fr.trace) >= 3
  /\ fr.trace[1] = "protect"
  /\ fr.trace[2] = "authorizeAdmin"
  /\ fr.trace[Len(fr.trace)] = fr.h
  /\ fr.req.token \in UserIds
  /\ Users[fr.req.token].role = "admin"

C10_CategoryWritesAdminOnly ==
  [][/\ \A id \in DOMAIN inflight' :
          inflight'[id].h \in CategoryWrites => PassedAdminGate(inflight'[id])
     /\ cats' # cats =>
          \E id \in 1..MaxReq :
            /\ Moved(id)
            /\ inflight[id].h \in CategoryWrites
            /\ PassedAdminGate(inflight[id])]_vars

C10_Witness ==
  /\ last.h = "deleteCategory"
  /\ last.req.token = "mod"
  /\ last.resp.status = 403
  /\ ParamId(last.req.path) = "c1"
  /\ "c1" \in DOMAIN cats
  /\ postCount("c1") = 0

\* C11: a create-post, update-post, delete-post or add-comment controller
\* runs only for a request that protect has passed and whose token names a
\* user; such a request without a valid token is answered 401 by protect
\* with the stored posts as before; and the stored posts change only in a
\* step of an authenticated request to one of the four, or in the view
\* count step of get-post.
PostWrites == {"createPost", "updatePost", "deletePost", "addComment"}

PassedProtect(fr) ==
  /\ fr.trace # <<>>
  /\ fr.trace[1] = "protect"
  /\ fr.req.token \in UserIds

C11_PostWritesAuthenticated ==
  [][/\ \A id \in DOMAIN inflight' :
          inflight'[id].h \in PostWrites => PassedProtect(inflight'[id])
     /\ (/\ nreq' # nreq
         /\ last'.h \in PostWrites
         /\ last'.req.token \notin UserIds)
        => /\ last'.trace = <<"protect">>
           /\ last'.resp.status = 401
           /\ posts' = posts
     /\ posts' # posts =>
          \E id \in 1..MaxReq :
            /\ Moved(id)
            /\ \/ inflight[id].h = "getPost"
               \/ /\ inflight[id].h \in PostWrites
                  /\ PassedProtect(inflight[id])]_vars

C11_Witness ==
  /\ last.h = "addComment"
  /\ last.req.token = NoToken
  /\ last.resp.status = 401
  /\ last.trace = <<"protect">>
  /\ ParamId(last.req.path) \in DOMAIN posts

\* C12: a stored post's comment list only grows at its end: a step leaves
\* the comments of a post that stays stored as they were, or is the push
\* step of an add-comment request for that post and appends exactly one
\* comment, whose user is the requester and whose content is the content
\* sent with leading and trailing blanks removed.
IsPush(id, p) ==
  /\ Moved(id)
  /\ inflight[id].h = "addComment"
  /\ inflight[id].pc = "push"
  /\ ParamId(inflight[id].req.path) = p

C12_CommentsAppendOnly ==
  [][\A p \in DOMAIN posts \cap DOMAIN posts' :
       /\ posts'[p].comments # posts[p].comments =>
            \E id \in 1..MaxReq : IsPush(id, p)
       /\ \A id \in 1..MaxReq :
            IsPush(id, p) =>
              posts'[p].comments =
                Append(posts[p].comments,
                       [user |-> inflight[id].sent.token,
                        content |-> Trim(inflight[id].sent.body.content)])
    ]_vars

C12_Witness ==
  /\ last.h = "addComment"
  /\ last.resp.status = 200
  /\ last.req.token = "mod"
  /\ "p1" \in DOMAIN posts
  /\ Len(posts["p1"].comments) = 2

\* C12 as stated: the appended comment carries the content as it was sent.
C12_CommentKeepsGivenContent ==
  [][\A p \in DOMAIN posts \cap DOMAIN posts' :
       \A id \in 1..MaxReq :
         IsPush(id, p) =>
           posts'[p].comments =
             Append(posts[p].comments,
                    [user |-> inflight[id].sent.token,
                     content |-> inflight[id].sent.body.content])
    ]_vars

\* C13, the part that holds: with requests handled one at a time, an
\* add-comment request with a valid token and valid content reaches its
\* controller; there, for a
\* stored post it is answered 200 with the comment stored, whoever the
\* requester is; for a well-formed id of no post it is answered 404, for a
\* malformed id 500, and in both cases the stored posts are as before.
AddCommentOutcome(id, p) ==
  /\ inflight[id].pc = "find" /\ p \notin DOMAIN posts =>
       /\ id \notin DOMAIN inflight'
       /\ last'.resp.status = 404
       /\ posts' = posts
  /\ id \notin DOMAIN inflight' /\ p \in DOMAIN posts =>
       /\ last'.resp.status = 200
       /\ Len(posts[p].comments) > 0
       /\ posts[p].comments[Len(posts[p].comments)].user
            = inflight[id].req.token

C13_AddCommentAnyUser ==
  [][/\ (nreq' # nreq /\ last'.h = "addComment") =>
          \/ last'.req.token \notin UserIds
          \/ validateComment(last'.req.body) # <<>>
     /\ \A id \in 1..MaxReq :
          (Moved(id) /\ inflight[id].h = "addComment") =>
            LET p == ParamId(inflight[id].req.path)
            IN IF isObjectId(p) \/ inflight[id].pc # "find"
               THEN AddCommentOutcome(id, p)
               ELSE /\ id \notin DOMAIN inflight'
                    /\ last'.resp.status = 500
                    /\ posts' = posts]_vars

C13_Witness ==
  /\ last.h = "addComment"
  /\ last.resp.status = 200
  /\ last.req.token = "adm"
  /\ ParamId(last.req.path) = "p1"
  /\ "p1" \in DOMAIN posts
  /\ posts["p1"].author = "u1"
  /\ posts["p1"].comments = <<[user |-> "adm", content |-> <<"o", "k">>]>>

\* C13: whenever the id of an add-comment request has no post, malformed
\* ids included, the answer is 404 and the stored posts are as before (and
\* for a stored post the answer is 200 with the comment stored).
C13_MissingPostIs404 ==
  [][\A id \in 1..MaxReq :
       (Moved(id) /\ inflight[id].h = "addComment")
       => AddCommentOutcome(id, ParamId(inflight[id].req.path))]_vars

\* C14: with requests handled one at a time, a search with a non-empty
\* query q is answered as the post list operation would answer, over the
\* same stored posts, a request with search = q, the same page and limit,
\* no category or author filter and the default sorting: both fail, or the
\* search returns the posts the list would return, in the same order, with
\* the same totalPosts and totalPages.
AsListQuery(q) ==
  [f \in (DOMAIN q \ {"q"}) \cup {"search"} |->
     IF f = "search" THEN q.q ELSE q[f]]

ListFails(lq) ==
  Entry("getAllPosts", [query |-> lq]).status # 0 \/ ListThrows(lq)

C14_SearchEqualsList ==
  (last.h = "searchPosts" /\ TruthyText(last.req.query, "q")) =>
    LET lq == AsListQuery(last.req.query)
        hits == {p \in DOMAIN posts : ListFilter(lq, posts[p])}
    IN IF ListFails(lq)
       THEN last.resp.status = 500
       ELSE /\ last.resp.status = 200
            /\ last.resp.posts
                 \in FoundLists(posts, hits, SortByOf(lq), SortOrderOf(lq), lq)
            /\ last.resp.pagination.totalPosts = Cardinality(hits)
            /\ last.resp.pagination.totalPages
                 = CeilDiv(Cardinality(hits), LimitOf(lq))

C14_Witness ==
  /\ last.h = "searchPosts"
  /\ last.resp.status = 200
  /\ last.req.query.q = QWords
  /\ last.resp.posts = <<"p3", "p1">>
  /\ "p2" \in DOMAIN posts
  /\ TextMatch(QWords, posts["p2"])

\* C15: an update-post or delete-post request of a moderator for a stored
\* post of another user, once in its controller, is answered 200.
C15_ModeratorManagesPosts ==
  (/\ last.h \in {"updatePost", "deletePost"}
   /\ ControllerRan(last)
   /\ last.req.token = "mod"
   /\ ParamId(last.req.path) \in DOMAIN posts
   /\ posts[ParamId(last.req.path)].author # "mod")
  => last.resp.status = 200

\* C16: a request whose body fails the validation chain of its route is
\* answered 400 by the validation handler with one entry, a field name and
\* a message, per failed check; its controller is not entered (no frame is
\* made for a body that fails a check of its chain); and the stored posts
\* and categories are as before.
Validated ==
  {"createPost", "updatePost", "createCategory", "updateCategory",
   "addComment"}

RejectedByValidator(l) ==
  /\ l.h \in Validated
  /\ l.trace # <<>>
  /\ l.trace[Len(l.trace)] \in Validators

C16_ValidationFailure ==
  [][/\ (nreq' # nreq /\ last'.h # "none" /\ RejectedByValidator(last')) =>
          LET failed == ValidationErrors(last'.trace[Len(last'.trace)],
                                         last'.req.body)
          IN /\ failed # <<>>
             /\ last'.resp.status = 400
             /\ last'.resp.errors = failed
             /\ \A i \in DOMAIN last'.resp.errors :
                  DOMAIN last'.resp.errors[i] = {"field", "message"}
             /\ ~ControllerRan(last')
             /\ posts' = posts /\ cats' = cats /\ inflight' = inflight
     /\ \A id \in DOMAIN inflight' \ DOMAIN inflight :
          inflight'[id].h \in Validated =>
            /\ \E i \in DOMAIN inflight'[id].trace :
                 inflight'[id].trace[i] \in Validators
            /\ \A i \in DOMAIN inflight'[id].trace :
                 ValidationErrors(inflight'[id].trace[i],
                                  inflight'[id].sent.body) = <<>>]_vars

C16_Witness ==
  /\ last.h = "updatePost"
  /\ last.resp.status = 400
  /\ Len(last.resp.errors) = 3
  /\ last.resp.errors[1] =
       [field |-> "title",
        message |-> "Title must be between 1 and 100 characters"]
  /\ last.resp.errors[2].field = "content"
  /\ last.resp.errors[3].field = "category"
  /\ "p1" \in DOMAIN posts
  /\ posts["p1"].title = TGo

\* C17: a response sent by a post controller, a category controller or the
\* validation handler has success false and exactly one of error and
\* errors when its status is an error status, and success true and neither
\* when it is not.
C17_ErrorEnvelope ==
  (/\ last.h \notin {"none", "notFound"}
   /\ ControllerRan(last) \/ RejectedByValidator(last))
  => IF last.resp.status >= 400
     THEN /\ last.resp.success = FALSE
          /\ Has(last.resp, "error") # Has(last.resp, "errors")
     ELSE /\ last.resp.success = TRUE
          /\ ~Has(last.resp, "error")
          /\ ~Has(last.resp, "errors")

C17_Witness ==
  /\ last.h = "deleteCategory"
  /\ ControllerRan(last)
  /\ last.resp.status = 400
  /\ last.resp.success = FALSE
  /\ Has(last.resp, "error")
  /\ ~Has(last.resp, "errors")

\* C18: no step lowers the view count of a post that stays stored, and the
\* step of a get-post request that loads an unpublished post answers with
\* the post and leaves the stored posts, their view counts included, as
\* they were.
LoadsUnpublished(id) ==
  /\ Moved(id)
  /\ inflight[id].h = "getPost"
  /\ inflight[id].pc = "find"
  /\ \E p \in PostsByParam(ParamId(inflight[id].req.path)) :
        ~posts[p].isPublished

C18_ViewCountNeverDecreases ==
  [][/\ \A p \in DOMAIN posts \cap DOMAIN posts' :
          posts'[p].viewCount >= posts[p].viewCount
     /\ \A id \in 1..MaxReq :
          LoadsUnpublished(id) =>
            /\ posts' = posts
            /\ id \notin DOMAIN inflight'
            /\ last'.resp.status = 200
    ]_vars

C18_Witness ==
  /\ last.h = "getPost"
  /\ last.resp.status = 200
  /\ last.resp.post.id = "p2"
  /\ ~last.resp.post.isPublished
  /\ "p2" \in DOMAIN posts
  /\ posts["p2"].viewCount = SeedPosts["p2"].viewCount
  /\ posts["p1"].viewCount = SeedPosts["p1"].viewCount + 1

\* C19: a create-post request that carries the body the client form builds
\* from valid fields and one tag, sent by an authenticated user, is answered
\* 201 and the post is stored with the tags of the form.
FromForm(req) ==
  /\ req.body.ct = "multipart"
  /\ req.body = onSubmit(CreateForm)

C19_FormPostIsStored ==
  (/\ last.h = "createPost"
   /\ last.req.token \in UserIds
   /\ FromForm(last.req))
  => /\ last.resp.status = 201
     /\ \E p \in DOMAIN posts :
          /\ posts[p].title = CreateForm.title
          /\ posts[p].author = last.req.token
          /\ posts[p].tags = CreateForm.tags

C19_Witness ==
  /\ last.h = "createPost"
  /\ last.req.token = "u1"
  /\ FromForm(last.req)
  /\ RejectedByValidator(last)
  /\ last.resp.status = 400
  /\ last.resp.errors =
       <<[field |-> "tags", message |-> "Tags must be an array"]>>
  /\ nextPost = 2

\* C20: for the stored posts as they are, every filter and sort the list
\* operation is sent and every limit from 1 on, whatever lists the store
\* returns for pages 1..totalPages hold at most limit posts each, share no
\* post, and together hold every matching published post; and an answered
\* list request reports totalPages = ceil(totalPosts / limit), at most limit
\* posts, hasNextPage exactly when page < totalPages and hasPrevPage exactly
\* when page > 1.
NumText == <<"1", "2", "3">>

\* the query q asked for page i with limit n
PagedQuery(q, i, n) ==
  [f \in DOMAIN q \cup {"page", "limit"} |->
     IF f = "page" THEN NumText[i]
     ELSE IF f = "limit" THEN NumText[n] ELSE q[f]]

\* the lists the store may return for that page
PagesOf(q, i, n) ==
  LET pq == PagedQuery(q, i, n)
      hits == {p \in DOMAIN posts : ListFilter(pq, posts[p])}
  IN FoundLists(posts, hits, SortByOf(pq), SortOrderOf(pq), pq)

PagesPartition(q, n) ==
  LET hits == {p \in DOMAIN posts : ListFilter(q, posts[p])}
      total == Cardinality(hits)
      totalPages == CeilDiv(total, n)
  IN /\ \A i \in 1..totalPages : \A a \in PagesOf(q, i, n) :
          /\ Len(a) <= n
          /\ Range(a) \subseteq hits
          /\ \A j \in (i + 1)..totalPages : \A b \in PagesOf(q, j, n) :
               Range(a) \cap Range(b) = {}
     /\ \A p \in hits : \E i \in 1..totalPages :
          \A a \in PagesOf(q, i, n) : p \in Range(a)

PageAnswerRight ==
  (/\ last.h = "getAllPosts"
   /\ last.resp.status = 200
   /\ LimitOf(last.req.query) >= 1)
  => LET q == last.req.query
         pg == last.resp.pagination
         hits == {p \in DOMAIN posts : ListFilter(q, posts[p])}
     IN /\ pg.totalPosts = Cardinality(hits)
        /\ pg.postsPerPage = LimitOf(q)
        /\ pg.totalPages * pg.postsPerPage >= pg.totalPosts
        /\ (pg.totalPages - 1) * pg.postsPerPage < pg.totalPosts
             \/ (pg.totalPages = 0 /\ pg.totalPosts = 0)
        /\ Len(last.resp.posts) <= pg.postsPerPage
        /\ pg.hasNextPage <=> pg.currentPage < pg.totalPages
        /\ pg.hasPrevPage <=> pg.currentPage > 1

Pageable(q) == ~ListFails(PagedQuery(q, 1, 1))

C20_ListPaginates ==
  /\ PageAnswerRight
  /\ \A x \in DOMAIN ListQueries : \A n \in DOMAIN NumText :
       Pageable(ListQueries[x]) => PagesPartition(ListQueries[x], n)

\* the sort keys of the posts a query matches are all different
DistinctKeys(q) ==
  \A p, r \in {x \in DOMAIN posts : ListFilter(q, posts[x])} :
    p # r => SortKey(SortByOf(q), posts[p]) # SortKey(SortByOf(q), posts[r])

\* C20, the part that holds: the same when no two matching posts have the
\* same sort key.
C20_ListPaginatesDistinctKeys ==
  /\ PageAnswerRight
  /\ \A x \in DOMAIN ListQueries : \A n \in DOMAIN NumText :
       (Pageable(ListQueries[x]) /\ DistinctKeys(ListQueries[x]))
         => PagesPartition(ListQueries[x], n)

\* two published posts with the same view count, and a list answer
C20_Witness ==
  /\ \E p, r \in DOMAIN posts :
       /\ p # r
       /\ posts[p].isPublished /\ posts[r].isPublished
       /\ posts[p].viewCount = posts[r].viewCount
  /\ ~PagesPartition(ListQueries[10], 1)

\* C21: the requests answered and the requests in flight went through
\* authentication and the admin role check first, then payload validation,
\* then the controller: a request refused by protect or authorize was not
\* validated and reached no controller, and taking a request in touches no
\* collection.  The owner check of update-post and delete-post refuses a
\* request in the step that follows the fetch of the post, and writes
\* nothing.
AuthSteps == {"protect", "authorizeAdmin"}

Handled == {last} \cup {inflight[i] : i \in DOMAIN inflight}

AuthBeforeValidation(t) ==
  \A i, j \in DOMAIN t :
    (t[i] \in AuthSteps /\ t[j] \notin AuthSteps) => i < j

ValidationBeforeController(t, h) ==
  \A i, j \in DOMAIN t :
    (t[i] \in Validators /\ t[j] = h) => i < j

C21_AuthThenValidationThenStore ==
  [][/\ \A fr \in Handled' :
          fr.h \notin {"none", "notFound"} =>
            /\ AuthBeforeValidation(fr.trace)
            /\ ValidationBeforeController(fr.trace, fr.h)
            /\ fr.h \in Validated => fr.trace[1] = "protect"
     /\ nreq' # nreq => posts' = posts /\ cats' = cats
     /\ \A id \in 1..MaxReq :
          (/\ Moved(id)
           /\ inflight[id].h \in {"updatePost", "deletePost"}
           /\ id \notin DOMAIN inflight'
           /\ last'.resp.status = 403)
          => /\ inflight[id].pc = "find"
             /\ ~mayModify(posts[ParamId(inflight[id].req.path)],
                           inflight[id].req)
             /\ posts' = posts
    ]_vars

C21_Witness ==
  /\ last.h = "updatePost"
  /\ last.resp.status = 403
  /\ last.trace = <<"protect", "uploadSingle", "validatePost", "updatePost">>
  /\ last.req.token = "mod"

\* C21 as stated: payload validation runs before protect and authorize.
C21_ValidationThenAuth ==
  \A fr \in Handled :
    fr.h \notin {"none", "notFound"} =>
      \A i, j \in DOMAIN fr.trace :
        (fr.trace[i] \in Validators /\ fr.trace[j] \in AuthSteps) => i < j

\* C22: a 200 answer of the post list, search-posts or posts-by-category
\* operation lists only posts that are published, and a 200 answer of
\* get-post carries a published post.
PublicLists == {"getAllPosts", "searchPosts", "getPostsByCategory"}

ListsOnlyPublished ==
  (last.h \in PublicLists /\ last.resp.status = 200)
  => \A p \in Range(last.resp.posts) :
       p \in DOMAIN posts /\ posts[p].isPublished

C22_PublicOnlyPublished ==
  /\ ListsOnlyPublished
  /\ (last.h = "getPost" /\ last.resp.status = 200)
     => last.resp.post.isPublished

\* C22, the part that holds: the three list operations.
C22_PublicListsOnlyPublished == ListsOnlyPublished

C22_Witness ==
  /\ last.h = "getPost"
  /\ last.req.token = NoToken
  /\ last.resp.status = 200
  /\ last.resp.post = SeedPosts["p2"]
  /\ ~last.resp.post.isPublished

\* C25: no two stored categories have the same name, and a create-category
\* or renaming update-category request whose name another category holds
\* when the request is answered is answered 400.
NameTakenByOther(l) ==
  \E c \in DOMAIN cats :
    /\ cats[c].name = l.req.body.name
    /\ l.h = "updateCategory" => c # ParamId(l.req.path)
    /\ l.h = "createCategory" =>
         (l.resp.status = 201 => c # l.resp.category.id)

C25_UniqueCategoryNames ==
  /\ \A c, d \in DOMAIN cats : c # d => cats[c].name # cats[d].name
  /\ (/\ last.h \in {"createCategory", "updateCategory"}
      /\ ControllerRan(last)
      /\ last.resp.status \in {200, 201})
     => ~NameTakenByOther(last)

\* a create and a rename to the same name, both past their name check
C25_Witness ==
  \E i, j \in DOMAIN inflight :
    /\ inflight[i].h = "createCategory" /\ inflight[i].pc = "create"
    /\ inflight[j].h = "updateCategory" /\ inflight[j].pc = "save"
    /\ inflight[i].req.body.name = inflight[j].req.body.name
    /\ inflight[j].doc.name # inflight[j].req.body.name

\* C29: the save step of an update-post request leaves the author, the
\* view count and the comments of the stored post as they were, and its
\* featured image too when the request carries no file; with a file the
\* featured image becomes that file.
IsSave(id, p) ==
  /\ Moved(id)
  /\ inflight[id].h = "updatePost"
  /\ inflight[id].pc = "save"
  /\ inflight[id].doc.id = p
  /\ p \in DOMAIN posts

C29_UpdateKeepsOtherFields ==
  [][\A id \in 1..MaxReq : \A p \in DOMAIN posts :
       IsSave(id, p) =>
         /\ p \in DOMAIN posts'
         /\ posts'[p].author = posts[p].author
         /\ posts'[p].viewCount = posts[p].viewCount
         /\ posts'[p].comments = posts[p].comments
         /\ posts'[p].featuredImage =
              IF inflight[id].req.file = NoFile
              THEN posts[p].featuredImage ELSE inflight[id].req.file
    ]_vars

C29_Witness ==
  /\ last.h = "updatePost"
  /\ last.resp.status = 200
  /\ last.req.file = NoFile
  /\ ParamId(last.req.path) = "p1"
  /\ "p1" \in DOMAIN posts
  /\ posts["p1"].title = TNews
  /\ posts["p1"].author = "u1"
  /\ posts["p1"].viewCount = SeedPosts["p1"].viewCount + 1
  /\ posts["p1"].featuredImage = DefaultImage

\* C23: in the client auth store isAuthenticated is true exactly when user
\* is not null.
C23_AuthenticatedIffUser ==
  auth.isAuthenticated <=> auth.user # NoUser

\* an updateProfile call still awaiting its response after a logout
C23_Witness ==
  \E i \in DOMAIN calls :
    /\ calls[i].op = "updateProfile"
    /\ calls[i].epoch < nlogout
    /\ auth.user = NoUser
    /\ ~auth.isAuthenticated

\* C24: once a logout has happened, a step that sets user or makes
\* isAuthenticated true is the return of a login or register call that
\* started after the latest logout.
C24_LoggedOutUntilNewLogin ==
  [][(/\ nlogout > 0
      /\ \/ auth'.user # NoUser /\ auth'.user # auth.user
         \/ auth'.isAuthenticated /\ ~auth.isAuthenticated)
     => \E i \in DOMAIN calls :
          /\ i \notin DOMAIN calls'
          /\ calls[i].op \in {"login", "register"}
          /\ calls[i].epoch = nlogout
    ]_cvars

\* the late return of an updateProfile call has put a user back
C24_Witness ==
  /\ nlogout > 0
  /\ ret.op = "updateProfile"
  /\ ret.success
  /\ auth.user # NoUser
  /\ ~auth.isAuthenticated

\* C28: loading is true until the mount effect has run; it is false
\* whenever the initial check has been made and no checkAuth, login or
\* register call awaits its response; entering login or register sets it
\* true, and the return of a checkAuth, login or register call, however the
\* call ended, leaves it false.
SetsLoading == {"checkAuth", "login", "register"}

C28_LoadingSettles ==
  [][/\ ncall = 0 => auth.loading
     /\ (/\ ncall' >= 1
         /\ \A i \in DOMAIN calls' : calls'[i].op \notin SetsLoading)
        => ~auth'.loading
     /\ \A i \in DOMAIN calls' \ DOMAIN calls :
          calls'[i].op \in {"login", "register"} => auth'.loading
     /\ \A i \in DOMAIN calls \ DOMAIN calls' :
          calls[i].op \in SetsLoading => ~auth'.loading
    ]_cvars

C28_Witness ==
  /\ ret.op = "login"
  /\ ret.outcome = "threw"
  /\ calls = [i \in {} |-> 0]
  /\ ~auth.loading
  /\ auth.user = NoUser

\* C26: when no post fetch is in flight, every fetch so far was answered
\* successfully and list posts are shown, the posts and the pagination
\* shown are the response to the list request for the selected category and
\* the current page.
C26_ShownMatchesSelection ==
  (/\ nfetch >= 1
   /\ fetches = [i \in {} |-> 0]
   /\ ~missed
   /\ home.posts.kind = "list")
  => LET r == ResponseTo(ListRequest(home.currentPage,
                                     home.selectedCategory))
     IN /\ home.posts = r.posts
        /\ home.pagination = r.pagination

\* two list fetches for different categories in flight together
C26_Witness ==
  \E i, j \in DOMAIN fetches :
    /\ i < j
    /\ fetches[i].req.kind = "list"
    /\ fetches[j].req.kind = "list"
    /\ fetches[i].req.category # fetches[j].req.category
    /\ fetches[j].req.category = home.selectedCategory

\* C27: a fetch sent by a page change while the results of a search are
\* shown is restricted to the query of that search, and handleSearch sends
\* a request only for a query that is not blank and otherwise leaves the
\* page as it is.
SentNow == DOMAIN fetches' \ DOMAIN fetches

C27_PageChangeKeepsSearch ==
  [][/\ \A i \in SentNow :
          (/\ fetches'[i].by = "page"
           /\ home.posts.kind = "search")
          => /\ fetches'[i].req.kind = "search"
             /\ fetches'[i].req.q = home.posts.q
     /\ \A i \in SentNow :
          fetches'[i].by = "search" => Trim(fetches'[i].req.q) # <<>>
    ]_cvars

\* C27, the part that holds: the blank query.
C27_BlankQuerySendsNothing ==
  [][\A i \in SentNow :
       fetches'[i].by = "search" =>
         /\ Trim(home.searchQuery) # <<>>
         /\ fetches'[i].req = SearchRequest(home.searchQuery)
    ]_cvars

\* page 2 of the unfiltered list shown after a search for "Go"
C27_Witness ==
  /\ home.searchQuery = TGo
  /\ home.posts = ListRequest(2, NoCategory)
  /\ home.currentPage = 2
  /\ ~home.loading
  /\ ~missed

====
